---------------------------- MODULE Spec2Model ----------------------------
(***************************************************************************)
(* A model of the erg bytecode generator                                   *)
(* (src/compiler/erg_compiler/codegen.rs).                                 *)
(*                                                                         *)
(* Every routine of CodeGenerator is an operator on a record g holding     *)
(* the generator's fields (units, unit_size, errs) plus `crash`, which     *)
(* records that the process was terminated (crash(), a panic).  After a    *)
(* crash every operator is the identity: the process is gone.              *)
(*                                                                         *)
(* Representation choices:                                                 *)
(*   - Str is a sequence of chunks; the sigils "!", "$" and "." are        *)
(*     chunks of their own, all other chunks are maximal sigil-free runs.  *)
(*   - code is the byte vector; a byte at an even offset is an opcode      *)
(*     (write_instr takes an Opcode), a byte at an odd offset a u8.        *)
(*   - u32 fields (stack_len, stacksize) hold the 32 bit pattern read as   *)
(*     two's complement: a negative number v stands for 2^32 + v.          *)
(*   - overflow_checks is the build profile: TRUE panics on integer        *)
(*     overflow (debug profile), FALSE wraps (release profile).            *)
(***************************************************************************)
EXTENDS Integers, Sequences, FiniteSets, TLC

VARIABLES
    units,            \* CodeGenerator.units: the unit stack, bottom first
    unit_size,        \* CodeGenerator.unit_size: the id counter
    errs,             \* CodeGenerator.errs: accumulated diagnostics
    crash,            \* "none", "bug" (crash()), or "panic"
    fin,              \* history: every unit popped so far, in pop order
    overflow_checks,  \* build profile (see above)
    is_repl,          \* cfg.input.is_repl()
    pc,               \* position of the codegen call
    print_point,      \* codegen's local print_point
    srcln,            \* last source line consumed by the input so far
    nops,             \* SpecEmit: number of emitter calls made so far
    last,             \* history: the last call made, [op, arg, len0]
    result            \* the code object returned by codegen (<<>> before)

vars == <<units, unit_size, errs, crash, fin, overflow_checks, is_repl,
          pc, print_point, srcln, nops, last, result>>

--------------------------------------------------------------------------
\* Bounds of the model.

\* SpecEmit: the length of the sequence of emitter calls.
MaxOps == 5
\* SpecEmit: at most this many units on the stack.
MaxDepth == 3
\* SpecEmit: stack_inc_n / stack_dec_n are called with n up to this.
MaxN == 2

--------------------------------------------------------------------------
\* Str

Sigils == {"!", "$", "."}

RECURSIVE Canon(_)
\* Adjacent sigil-free chunks are one run of characters.
Canon(s) ==
    IF Len(s) < 2 THEN s
    ELSE IF s[1] \notin Sigils /\ s[2] \notin Sigils
         THEN Canon(<<s[1] \o s[2]>> \o SubSeq(s, 3, Len(s)))
         ELSE <<s[1]>> \o Canon(Tail(s))

\* str::replace(from, to) for a sigil `from`.
Replace(s, from, to) ==
    Canon([i \in 1..Len(s) |-> IF s[i] = from THEN to ELSE s[i]])

RECURSIVE LastDot(_, _)
LastDot(s, i) ==
    IF i = 0 THEN 0 ELSE IF s[i] = "." THEN i ELSE LastDot(s, i - 1)

\* name.split(".").last().unwrap()
SplitLast(s) == SubSeq(s, LastDot(s, Len(s)) + 1, Len(s))

\* position(|x| x == e) as a 0-based index, -1 for None.
RECURSIVE PositionFrom(_, _, _)
PositionFrom(seq, e, i) ==
    IF i > Len(seq) THEN -1
    ELSE IF seq[i] = e THEN i - 1
    ELSE PositionFrom(seq, e, i + 1)

Position(seq, e) == PositionFrom(seq, e, 1)

--------------------------------------------------------------------------
\* Name mangling and builtin remap

convert_to_python_attr(class, uniq_obj_name, name) ==
    CASE class = "Array!" /\ name = <<"push", "!">> -> <<"append">>
      [] class \in {"Complex", "Real", "Int", "Nat", "Float"}
            /\ name = <<"Real">> -> <<"real">>
      [] class \in {"Complex", "Real", "Int", "Nat", "Float"}
            /\ name = <<"Imag">> -> <<"imag">>
      [] class = "Module" /\ uniq_obj_name = <<"random">>
            /\ name = <<"randint", "!">> -> <<"randint">>
      [] class = "Module" /\ uniq_obj_name = <<"random">>
            /\ name = <<"choice", "!">> -> <<"choice">>
      [] OTHER -> name

escape_attr(class, uniq_obj_name, name) ==
    Replace(Replace(convert_to_python_attr(class, uniq_obj_name, name),
                    "!", "__erg_proc__"),
            "$", "__erg_shared__")

convert_to_python_name(name) ==
    CASE name = <<"abs">> -> <<"abs">>
      [] name = <<"classof">> -> <<"type">>
      [] name = <<"compile">> -> <<"compile">>
      [] name = <<"id">> -> <<"id">>
      [] name = <<"import">> -> <<"__import__">>
      [] name = <<"input", "!">> -> <<"input">>
      [] name = <<"log">> -> <<"print">>
      [] name = <<"print", "!">> -> <<"print">>
      [] name \in {<<"py">>, <<"pyimport">>} -> <<"__import__">>
      [] name \in {<<"quit">>, <<"exit">>} -> <<"quit">>
      [] OTHER -> name

escape_name(name) ==
    Replace(Replace(convert_to_python_name(name), "!", "__erg_proc__"),
            "$", "__erg_shared__")

--------------------------------------------------------------------------
\* ValueObj: [tag, v] with v a sequence

VInt(n) == [tag |-> "Int", v |-> <<n>>]
VStr(s) == [tag |-> "Str", v |-> s]
\* ValueObj::from(usize)
VNat(n) == [tag |-> "Nat", v |-> <<n>>]
VNone == [tag |-> "None", v |-> <<>>]
VCode(c) == [tag |-> "Code", v |-> <<c>>]
VTuple(vs) == [tag |-> "Tuple", v |-> vs]

--------------------------------------------------------------------------
\* CodeObj and CodeGenUnit

\* CodeObj::empty(params, filename, name, firstlineno): an empty code
\* object whose varnames are the parameters.
CodeObjEmpty(params, name, firstlineno) ==
    [code |-> <<>>, consts |-> <<>>, names |-> <<>>, varnames |-> params,
     freevars |-> <<>>, cellvars |-> <<>>, stacksize |-> 0,
     flags |-> 0, name |-> name, firstlineno |-> firstlineno,
     lnotab |-> <<>>]

\* CodeGenUnit::new.  The g_ fields are history.  Per instruction: g_line,
\* the greatest source line the unit's lowering had entered when it was
\* written; g_expr, the line of the innermost expression being lowered
\* then; g_owner, the owner in force then.  g_cur and g_at are the current
\* values of the two lines, g_max the greatest value stack_len has had (as
\* a u32).  g_depth and g_top are written when the unit is pushed: its
\* position on the unit stack, the id of the unit at the bottom then, and
\* g_under, the ids of the units below it.  g_if lists, for every `if`
\* lowered in the unit, the locals idx_pop_jump_if_false, idx_jump_forward
\* (-1 in the else-less form) and idx_end of emit_if_instr; g_arms lists,
\* for every arm of a `match`, whether DUP_TOP was written before it,
\* whether it is the last arm, the pop_jump_points of its pattern and the
\* absolute_jump_points recorded after its body; g_match lists, for every
\* `match`, its absolute_jump_points and the lasti they were patched to;
\* g_subr lists, for every subroutine defined in the unit, the lasti at
\* which emit_subr_def began to write, the cellvars of the code object
\* codegen_block returned, and the cellvars of the units on the stack
\* before and after codegen_block; g_stmt lists, for every statement a
\* statement loop has lowered in the unit, the arm of codegen_expr it took,
\* stack_len when the loop began, before the statement and after its
\* codegen_expr, and whether the loop
\* then wrote POP_TOP; g_for lists, for every `for` lowered in the unit,
\* the locals idx_for_iter and idx_end of emit_for_instr.
CodeGenUnitNew(id, params, name, firstlineno) ==
    [id |-> id,
     codeobj |-> CodeObjEmpty(params, name, firstlineno),
     stack_len |-> 0,
     prev_lineno |-> firstlineno,
     lasti |-> 0,
     prev_lasti |-> 0,
     g_line |-> <<>>, g_expr |-> <<>>, g_owner |-> <<>>,
     g_cur |-> firstlineno, g_at |-> firstlineno, g_max |-> 0,
     g_depth |-> 0, g_top |-> 0, g_under |-> <<>>,
     g_if |-> <<>>, g_arms |-> <<>>, g_match |-> <<>>, g_subr |-> <<>>,
     g_stmt |-> <<>>, g_for |-> <<>>]

\* The generator record the operators work on.
G == [units |-> units, unit_size |-> unit_size, errs |-> errs,
      crash |-> crash, fin |-> fin, owner |-> <<>>]

\* Bind(v, K) is K(v) with v worked out once and handed on as a value: the
\* `let` of the source.  (A LET definition is worked out again at each of
\* its uses.)  A routine taking &mut self binds self to g on entry.
Bind(v, K(_)) == CHOOSE r \in { K(b) : b \in {v} } : TRUE

Crashed(g) == g.crash # "none"

Die(g, how) == [g EXCEPT !.crash = how]

toplevel_block(g) == g.units[1]

cur_block(g) == g.units[Len(g.units)]

SetCur(g, u) == [g EXCEPT !.units[Len(g.units)] = u]

\* The unit as it lies on the stack g.units after a push.
Pushed(g, unit) ==
    [unit EXCEPT !.g_under = [k \in 1..Len(g.units) |-> g.units[k].id],
                 !.g_depth = Len(g.units) + 1,
                 !.g_top = IF g.units = <<>> THEN unit.id
                           ELSE g.units[1].id]

\* The push without `self.unit_size += 1`: the counter stands still.
PushUnitNoCount(self, params, name, firstlineno) ==
    Bind(self, LAMBDA g :
    [g EXCEPT !.units = Append(@, Pushed(g,
                  CodeGenUnitNew(g.unit_size + 1, params, name,
                                 firstlineno)))])

\* self.unit_size += 1; self.units.push(CodeGenUnit::new(..))
PushUnit(self, params, name, firstlineno) ==
    Bind(self, LAMBDA g :
    [g EXCEPT !.unit_size = @ + 1,
              !.units = Append(@, Pushed(g,
                  CodeGenUnitNew(g.unit_size + 1, params, name,
                                 firstlineno)))])

\* u32 arithmetic on the two's complement reading.
U32Gt(a, b) == IF (a < 0) = (b < 0) THEN a > b ELSE a < 0

U32Max(a, b) == IF U32Gt(a, b) THEN a ELSE b

U32AddOverflows(a, n) == a < 0 /\ a + n >= 0

U32SubOverflows(a, n) == a >= 0 /\ a - n < 0


--------------------------------------------------------------------------
\* Variants of three routines, each with one step left out.  The properties
\* below are re-checked with a variant in place of the routine: a property
\* that still held would not depend on that step.

\* write_arg without `lasti += 1`.
write_arg_no_lasti(self, code) ==
    Bind(self, LAMBDA g :
    IF g.crash # "none" THEN g
    ELSE [g EXCEPT !.units[Len(g.units)].codeobj.code = Append(@, code % 256)])

\* emit_load_const without the position() search: always pushes.
emit_load_const_no_search(self, cons) ==
    Bind(self, LAMBDA g :
    IF g.crash # "none" THEN g
    ELSE LET k == Len(g.units)
             n == Len(g.units[k].codeobj.consts)
             sl == g.units[k].stack_len + 1
         IN [g EXCEPT !.units[k].codeobj.consts = Append(@, cons),
                      !.units[k].codeobj.code =
                           @ \o <<"LOAD_CONST", n % 256>>,
                      !.units[k].lasti = @ + 2,
                      !.units[k].g_line = Append(@, g.units[k].g_cur),
                      !.units[k].g_expr = Append(@, g.units[k].g_at),
                      !.units[k].g_owner = Append(@, g.owner),
                      !.units[k].stack_len = sl,
                      !.units[k].g_max = IF sl > @ THEN sl ELSE @,
                      !.units[k].codeobj.stacksize =
                           IF sl > @ THEN sl ELSE @])

RECURSIVE RecSearchNoCell(_, _, _)
RecSearchNoCell(g, name, k) ==
    IF k = 0 THEN [g |-> g, kind |-> <<"Global">>]
    ELSE LET co == g.units[k].codeobj
             InSeq(q) == \E i \in 1..Len(q) : q[i] = name
         IN IF InSeq(co.cellvars) THEN [g |-> g, kind |-> <<"Deref">>]
            ELSE IF InSeq(co.varnames)
            THEN [g |-> g, kind |-> IF k = 1 THEN <<"Global">>
                                    ELSE <<"Deref">>]
            ELSE IF k = 1 /\ InSeq(co.names)
            THEN [g |-> g, kind |-> <<"Global">>]
            ELSE RecSearchNoCell(g, name, k - 1)

\* rec_search without `block.codeobj.cellvars.push(cellvar_name)`.
rec_search_no_cellvar(self, name) ==
    Bind(self, LAMBDA g : RecSearchNoCell(g, name, Len(g.units) - 1))

--------------------------------------------------------------------------
\* The emitter

\* `code as u8` of edit_code: an opcode at an even offset, a u8 at an odd one.
AsByte(idx, code) == IF idx % 2 = 0 THEN code ELSE code % 256

edit_code(self, idx, code) ==
    Bind(self, LAMBDA g :
    IF Crashed(g) THEN g
    ELSE IF idx >= Len(cur_block(g).codeobj.code)
    THEN Die(g, "panic")   \* get_mut(idx).unwrap() on None
    ELSE SetCur(g, [cur_block(g) EXCEPT
                        !.codeobj.code[idx + 1] = AsByte(idx, code)]))

write_instr(self, code) ==
    Bind(self, LAMBDA g :
    IF Crashed(g) THEN g
    ELSE SetCur(g, [cur_block(g) EXCEPT
                        !.codeobj.code = Append(@, code),
                        !.lasti = @ + 1,
                        !.g_line = Append(@, cur_block(g).g_cur),
                        !.g_expr = Append(@, cur_block(g).g_at),
                        !.g_owner = Append(@, g.owner)]))

write_arg(self, code) ==
    Bind(self, LAMBDA g :
    IF Crashed(g) THEN g
    ELSE SetCur(g, [cur_block(g) EXCEPT
                        !.codeobj.code = Append(@, code % 256),
                        !.lasti = @ + 1]))

\* write_instr followed by write_arg: one instruction.
Emit(g, op, arg) == write_arg(write_instr(g, op), arg)

\* stack_len = v, noted in the history field g_max.
SetStackLen(g, v) ==
    SetCur(g, [cur_block(g) EXCEPT !.stack_len = v,
                                   !.g_max = U32Max(@, v)])

\* The tail shared by stack_inc and stack_inc_n.
LiftStacksize(self) ==
    Bind(self, LAMBDA g :
    IF U32Gt(cur_block(g).stack_len, cur_block(g).codeobj.stacksize)
    THEN SetCur(g, [cur_block(g) EXCEPT
                        !.codeobj.stacksize = cur_block(g).stack_len])
    ELSE g)

stack_inc(self) ==
    Bind(self, LAMBDA g :
    IF Crashed(g) THEN g
    ELSE IF U32AddOverflows(cur_block(g).stack_len, 1) /\ overflow_checks
    THEN Die(g, "panic")
    ELSE LiftStacksize(SetStackLen(g, cur_block(g).stack_len + 1)))

stack_dec(self) ==
    Bind(self, LAMBDA g :
    IF Crashed(g) THEN g
    ELSE IF cur_block(g).stack_len = 0
    THEN Die(g, "bug")   \* crash("the stack size becomes -1")
    ELSE SetStackLen(g, cur_block(g).stack_len - 1))

stack_inc_n(self, n) ==
    Bind(self, LAMBDA g :
    IF Crashed(g) THEN g
    ELSE IF U32AddOverflows(cur_block(g).stack_len, n) /\ overflow_checks
    THEN Die(g, "panic")
    ELSE LiftStacksize(SetStackLen(g, cur_block(g).stack_len + n)))

stack_dec_n(self, n) ==
    Bind(self, LAMBDA g :
    IF Crashed(g) THEN g
    ELSE IF n > 0 /\ cur_block(g).stack_len = 0
    THEN Die(g, "bug")   \* crash("the stack size becomes -1")
    ELSE IF U32SubOverflows(cur_block(g).stack_len, n) /\ overflow_checks
    THEN Die(g, "panic") \* attempt to subtract with overflow
    ELSE SetStackLen(g, cur_block(g).stack_len - n))

emit_load_const(self, cons) ==
    Bind(self, LAMBDA g :
    IF Crashed(g) THEN g
    ELSE LET pos == Position(cur_block(g).codeobj.consts, cons)
             g1 == IF pos >= 0 THEN g
                   ELSE SetCur(g, [cur_block(g) EXCEPT
                                       !.codeobj.consts = Append(@, cons)])
             idx == IF pos >= 0 THEN pos
                    ELSE Len(cur_block(g1).codeobj.consts) - 1
         IN stack_inc(Emit(g1, "LOAD_CONST", idx)))

emit_pop_top(g) == stack_dec(Emit(g, "POP_TOP", 0))

cancel_pop_top(self) ==
    Bind(self, LAMBDA g :
    IF Crashed(g) THEN g
    ELSE LET code == cur_block(g).codeobj.code
         IN IF Len(code) < 2
            THEN \* code.len() - 2 underflows: a panic, or a wrapped index
                 \* for which get() is None
                 IF overflow_checks THEN Die(g, "panic") ELSE g
            ELSE IF code[Len(code) - 1] = "POP_TOP"
            THEN stack_inc(SetCur(g, [cur_block(g) EXCEPT
                     !.codeobj.code = SubSeq(code, 1, Len(code) - 2),
                     !.lasti = @ - 2,
                     !.g_line = SubSeq(@, 1, Len(@) - 1),
                     !.g_expr = SubSeq(@, 1, Len(@) - 1),
                     !.g_owner = SubSeq(@, 1, Len(@) - 1)]))
            ELSE g)

--------------------------------------------------------------------------
\* Name resolution.  A Name is [kind, idx]; Option is a sequence of
\* length 0 or 1.

NameOf(kind, idx) == [kind |-> kind, idx |-> idx]

\* local_search that never answers Name::global: a hit in names is always
\* Name::local.
local_search_no_global(g, name, acc_kind) ==
    LET current_is_toplevel == cur_block(g).id = toplevel_block(g).id
        co == cur_block(g).codeobj
        n == Position(co.names, name)
        v == Position(co.varnames, name)
        f == Position(co.freevars, name)
    IN IF n >= 0 THEN <<NameOf("Local", n)>>
       ELSE IF v >= 0
       THEN IF current_is_toplevel
            THEN <<NameOf("Local", v)>>
            ELSE <<NameOf("Fast", v)>>
       ELSE IF f >= 0
       THEN <<NameOf("Deref", f)>>
       ELSE <<>>

local_search(g, name, acc_kind) ==
    LET current_is_toplevel == cur_block(g).id = toplevel_block(g).id
        co == cur_block(g).codeobj
        n == Position(co.names, name)
        v == Position(co.varnames, name)
        f == Position(co.freevars, name)
    IN IF n >= 0
       THEN IF current_is_toplevel \/ acc_kind # "Name"
            THEN <<NameOf("Local", n)>>
            ELSE <<NameOf("Global", n)>>
       ELSE IF v >= 0
       THEN IF current_is_toplevel
            THEN <<NameOf("Local", v)>>
            ELSE <<NameOf("Fast", v)>>
       ELSE IF f >= 0
       THEN <<NameOf("Deref", f)>>
       ELSE <<>>

RECURSIVE RecSearchFrom(_, _, _)
\* The loop of rec_search at the unit with 1-based position k.
RecSearchFrom(g, name, k) ==
    IF k = 0 THEN [g |-> g, kind |-> <<"Global">>]
    ELSE LET block == g.units[k]
             block_is_toplevel == k = 1
             idx == Position(block.codeobj.varnames, name)
         IN IF Position(block.codeobj.cellvars, name) >= 0
            THEN [g |-> g, kind |-> <<"Deref">>]
            ELSE IF idx >= 0 /\ block_is_toplevel
            THEN [g |-> g, kind |-> <<"Global">>]
            ELSE IF idx >= 0
            THEN [g |-> [g EXCEPT !.units[k].codeobj.cellvars =
                            Append(@, block.codeobj.varnames[idx + 1])],
                  kind |-> <<"Deref">>]
            ELSE IF block_is_toplevel
                    /\ Position(block.codeobj.names, name) >= 0
            THEN [g |-> g, kind |-> <<"Global">>]
            ELSE RecSearchFrom(g, name, k - 1)

\* rec_search without `.skip(1)`: the loop starts at the current unit.
rec_search_no_skip(self, name) ==
    Bind(self, LAMBDA g : RecSearchFrom(g, name, Len(g.units)))

rec_search(self, name) ==
    Bind(self, LAMBDA g : RecSearchFrom(g, name, Len(g.units) - 1))

\* register_name, register_attr and register_method return the generator
\* and the Name.
register_name(self, name0) ==
    Bind(self, LAMBDA g :
    Bind(escape_name(name0), LAMBDA name :
    Bind(rec_search(g, name), LAMBDA r :
    LET current_is_toplevel == cur_block(g).id = toplevel_block(g).id
        g1 == r.g
        co == cur_block(g1).codeobj
    IN IF r.kind # <<>> /\ r.kind[1] \in {"Local", "Global"}
       THEN [g |-> SetCur(g1, [cur_block(g1) EXCEPT
                                   !.codeobj.names = Append(@, name)]),
             name |-> NameOf(IF current_is_toplevel THEN "Local"
                             ELSE r.kind[1], Len(co.names))]
       ELSE IF r.kind = <<"Deref">>
       THEN [g |-> SetCur(g1, [cur_block(g1) EXCEPT
                                   !.codeobj.freevars = Append(@, name)]),
             name |-> NameOf("Deref", Len(co.freevars))]
       ELSE IF current_is_toplevel
       THEN [g |-> SetCur(g1, [cur_block(g1) EXCEPT
                                   !.codeobj.names = Append(@, name)]),
             name |-> NameOf("Local", Len(co.names))]
       ELSE [g |-> SetCur(g1, [cur_block(g1) EXCEPT
                                   !.codeobj.varnames = Append(@, name)]),
             name |-> NameOf("Fast", Len(co.varnames))])))

register_attr(self, class, uniq_obj_name, name0) ==
    Bind(self, LAMBDA g :
    Bind(escape_attr(class, uniq_obj_name, SplitLast(name0)), LAMBDA name :
    [g |-> SetCur(g, [cur_block(g) EXCEPT
                          !.codeobj.names = Append(@, name)]),
     name |-> NameOf("Local", Len(cur_block(g).codeobj.names))]))

register_method(self, class, uniq_obj_name, name0) ==
    Bind(self, LAMBDA g :
    Bind(escape_attr(class, uniq_obj_name, SplitLast(name0)), LAMBDA name :
    [g |-> SetCur(g, [cur_block(g) EXCEPT
                          !.codeobj.names = Append(@, name)]),
     name |-> NameOf("Local", Len(cur_block(g).codeobj.names))]))

\* The load instruction chosen without looking at the kind of the name.
LoadOpcodeLocal(kind, local_instr) == local_instr

LoadOpcode(kind, local_instr) ==
    CASE kind \in {"Fast", "FastConst"} -> "LOAD_FAST"
      [] kind \in {"Global", "GlobalConst"} -> "LOAD_GLOBAL"
      [] kind \in {"Deref", "DerefConst"} -> "LOAD_DEREF"
      [] kind \in {"Local", "LocalConst"} -> local_instr

\* The name found by local_search, or else registered by `register`.
Resolve(g, found, registered) ==
    IF found # <<>> THEN [g |-> g, name |-> found[1]] ELSE registered

emit_load_name_instr(self, name) ==
    Bind(self, LAMBDA g :
    IF Crashed(g) THEN g
    ELSE Bind(Resolve(g, local_search(g, name, "Name"),
                      register_name(g, name)), LAMBDA r :
         stack_inc(Emit(r.g, LoadOpcode(r.name.kind, "LOAD_NAME"),
                        r.name.idx))))

emit_load_attr_instr(self, class, uniq_obj_name, name) ==
    Bind(self, LAMBDA g :
    IF Crashed(g) THEN g
    ELSE Bind(Resolve(g, local_search(g, name, "Attr"),
                      register_attr(g, class, uniq_obj_name, name)),
              LAMBDA r :
         Emit(r.g, LoadOpcode(r.name.kind, "LOAD_ATTR"), r.name.idx)))

emit_load_method_instr(self, class, uniq_obj_name, name) ==
    Bind(self, LAMBDA g :
    IF Crashed(g) THEN g
    ELSE Bind(Resolve(g, local_search(g, name, "Method"),
                      register_method(g, class, uniq_obj_name, name)),
              LAMBDA r :
         Emit(r.g, LoadOpcode(r.name.kind, "LOAD_METHOD"), r.name.idx)))

\* The store instruction chosen without looking at the kind of the name.
StoreOpcodeFast(kind, acc_kind) == "STORE_FAST"

StoreOpcode(kind, acc_kind) ==
    CASE kind = "Fast" -> "STORE_FAST"
      [] kind = "FastConst" -> "ERG_STORE_FAST_IMMUT"
      [] kind \in {"Global", "GlobalConst"} -> "STORE_GLOBAL"
      [] kind \in {"Deref", "DerefConst"} -> "STORE_DEREF"
      [] kind \in {"Local", "LocalConst"} ->
            CASE acc_kind = "Name" -> "STORE_NAME"
              [] acc_kind = "Attr" -> "STORE_ATTR"
              [] acc_kind = "Method" -> "STORE_ATTR"

emit_store_instr(self, name, acc_kind) ==
    Bind(self, LAMBDA g :
    IF Crashed(g) THEN g
    ELSE Bind(Resolve(g, local_search(g, name, acc_kind),
                      register_name(g, name)), LAMBDA r :
         stack_dec(Emit(r.g, StoreOpcode(r.name.kind, acc_kind),
                        r.name.idx))))


--------------------------------------------------------------------------
\* HIR.  Every expression carries ln, its ln_begin.  Option values are
\* sequences of length 0 or 1.

Lit(ln, data) == [k |-> "Lit", ln |-> ln, data |-> data]

\* t is the name of the type the checker gave the variable.
Local(ln, name, t) == [k |-> "Local", ln |-> ln, name |-> name, t |-> t]

Attr(obj, name) == [k |-> "Attr", ln |-> obj.ln, obj |-> obj, name |-> name]

\* obj.ref_t().name()
ref_t_name(obj) ==
    CASE obj.k = "Local" -> obj.t
      [] obj.k = "Lit" -> obj.data.tag
      [] OTHER -> "Obj"

\* obj.__name__()
uniq_name(obj) == IF obj.k = "Local" THEN obj.name ELSE <<>>

SelfDot(ln, name) == [k |-> "SelfDot", ln |-> ln, name |-> name]

\* ParamPattern / VarPattern
PVar(name) == [k |-> "VarName", name |-> name]

PLit(data) == [k |-> "Lit", data |-> data]

PArr(elems) == [k |-> "Array", elems |-> elems]

PDiscard == [k |-> "Discard"]

\* Params: non_defaults and defaults are sequences of [pat].
Params(non_defaults, defaults) ==
    [non_defaults |-> [i \in 1..Len(non_defaults) |->
                          [pat |-> non_defaults[i]]],
     defaults |-> [i \in 1..Len(defaults) |-> [pat |-> defaults[i]]]]

\* Args: pos is a sequence of expressions, kw of [keyword, expr].
Args(pos, kw) == [pos |-> pos, kw |-> kw]

SubrDef(ln, name, params, block) ==
    [k |-> "SubrDef", ln |-> ln, name |-> name, params |-> params,
     block |-> block]

\* op_is_def is body.op.category_is(DefOp), is_type is body.is_type().
VarDef(ln, pat, block, is_type, op_is_def) ==
    [k |-> "VarDef", ln |-> ln, pat |-> pat, block |-> block,
     is_type |-> is_type, op_is_def |-> op_is_def]

Lambda(ln, params, body) ==
    [k |-> "Lambda", ln |-> ln, params |-> params, body |-> body]

UnaryOp(ln, op, expr, tycode) ==
    [k |-> "UnaryOp", ln |-> ln, op |-> op, expr |-> expr,
     tycode |-> tycode]

BinOp(op, lhs, rhs, type_pair) ==
    [k |-> "BinOp", ln |-> lhs.ln, op |-> op, lhs |-> lhs, rhs |-> rhs,
     type_pair |-> type_pair]

Call(obj, args) == [k |-> "Call", ln |-> obj.ln, obj |-> obj, args |-> args]

Array(ln, elems) == [k |-> "Array", ln |-> ln, elems |-> elems]

\* An expression codegen_expr has no arm for.
Dict(ln) == [k |-> "Dict", ln |-> ln]

RECURSIVE obj_name(_)
obj_name(obj) ==
    CASE obj.k = "Local" -> <<obj.name>>
      [] obj.k = "Attr" ->
            LET o == obj_name(obj.obj)
            IN IF o = <<>> THEN <<>>
               ELSE <<o[1] \o <<".">> \o obj.name>>
      [] obj.k = "SelfDot" -> << <<".">> \o obj.name >>
      [] OTHER -> <<>>

\* Args::len, and the arguments in the order remove(0) yields them.
ArgsLen(args) == Len(args.pos) + Len(args.kw)

ArgsAll(args) ==
    args.pos \o [i \in 1..Len(args.kw) |-> args.kw[i].expr]

\* CodeObjFlags::NewLocals
NewLocals == 2

ErrPush(g, kind, loc, info) ==
    [g EXCEPT !.errs = Append(@, [kind |-> kind, loc |-> loc,
                                  info |-> info])]

\* p.inspect().map(|s| &s[..]).unwrap_or("_") over non_defaults, defaults
gen_param_names(params) ==
    LET all == params.non_defaults \o params.defaults
    IN [i \in 1..Len(all) |->
           IF all[i].pat.k = "VarName" THEN all[i].pat.name ELSE <<"_">>]

\* The line-number step entered also at the line of prev_lineno.
LineStepAtOrAfter(self, expr) ==
    Bind(self, LAMBDA g :
    LET u == cur_block(g)
        sd == u.lasti - u.prev_lasti
        ld == expr.ln - u.prev_lineno
        lt == u.codeobj.lnotab
        u0 == [u EXCEPT !.g_cur = IF expr.ln > @ THEN expr.ln ELSE @,
                        !.g_at = expr.ln]
        Advance(t) == SetCur(g, [u0 EXCEPT !.codeobj.lnotab = t,
                                           !.prev_lineno = @ + ld,
                                           !.prev_lasti = u.lasti])
    IN IF expr.ln >= u.prev_lineno
       THEN IF ld # 0
            THEN IF sd # 0
                 THEN Advance(lt \o <<sd % 256, ld % 256>>)
                 ELSE IF Len(lt) > 0
                 THEN IF lt[Len(lt)] + (ld % 256) > 255 /\ overflow_checks
                      THEN Die(SetCur(g, u0), "panic")
                      ELSE Advance([lt EXCEPT ![Len(lt)] =
                                        (@ + (ld % 256)) % 256])
                 ELSE Advance(lt \o <<0, ld % 256>>)
            ELSE Die(ErrPush(SetCur(g, u0), "compiler_bug", expr.ln, 0),
                     "bug")
       ELSE SetCur(g, u0))

\* The line-number step that opens codegen_expr.
LineStep(self, expr) ==
    Bind(self, LAMBDA g :
    LET u == cur_block(g)
        sd == u.lasti - u.prev_lasti
        ld == expr.ln - u.prev_lineno
        lt == u.codeobj.lnotab
        u0 == [u EXCEPT !.g_cur = IF expr.ln > @ THEN expr.ln ELSE @,
                        !.g_at = expr.ln]
        Advance(t) == SetCur(g, [u0 EXCEPT !.codeobj.lnotab = t,
                                           !.prev_lineno = @ + ld,
                                           !.prev_lasti = u.lasti])
    IN IF expr.ln > u.prev_lineno
       THEN IF ld # 0
            THEN IF sd # 0
                 THEN Advance(lt \o <<sd % 256, ld % 256>>)
                 ELSE IF Len(lt) > 0
                 THEN IF lt[Len(lt)] + (ld % 256) > 255 /\ overflow_checks
                      THEN Die(SetCur(g, u0), "panic")
                      ELSE Advance([lt EXCEPT ![Len(lt)] =
                                        (@ + (ld % 256)) % 256])
                 ELSE Advance(lt \o <<0, ld % 256>>)
            ELSE Die(ErrPush(SetCur(g, u0), "compiler_bug", expr.ln, 0),
                     "bug")
       ELSE SetCur(g, u0))

\* The end of a unit without `self.units.pop()`: the unit stays.
PopUnitNoPop(self) ==
    Bind(self, LAMBDA g : [g EXCEPT !.fin = Append(@, cur_block(g))])

\* self.units.pop() and the line-delta hand-over to the parent that ends
\* codegen_block, codegen_typedef_block and codegen.
PopUnit(self) ==
    Bind(self, LAMBDA g :
    LET unit == cur_block(g)
        g1 == [g EXCEPT !.units = SubSeq(@, 1, Len(@) - 1),
                        !.fin = Append(@, unit)]
    IN IF Len(g.units) = 1 THEN g1
       ELSE LET p == g.units[Len(g.units) - 1]
                ld == unit.prev_lineno - p.prev_lineno
                lt == p.codeobj.lnotab
                p1 == [p EXCEPT !.g_cur = IF unit.g_cur > @ THEN unit.g_cur
                                          ELSE @]
            IN IF ld < 0 /\ overflow_checks THEN Die(g1, "panic")
               ELSE IF ld = 0 THEN SetCur(g1, p1)
               ELSE IF Len(lt) > 0 /\ lt[Len(lt)] + (ld % 256) > 255
                       /\ overflow_checks
               THEN Die(g1, "panic")
               ELSE SetCur(g1, [p1 EXCEPT
                       !.codeobj.lnotab =
                           IF Len(lt) = 0 THEN lt
                           ELSE [lt EXCEPT ![Len(lt)] =
                                     (@ + (ld % 256)) % 256],
                       !.prev_lineno = @ + ld]))

\* The end of a unit without "flagging".
FlagNewLocalsNever(self) == Bind(self, LAMBDA g : g)

\* "flagging"
FlagNewLocals(self) ==
    Bind(self, LAMBDA g :
    IF cur_block(g).codeobj.varnames # <<>>
    THEN SetCur(g, [cur_block(g) EXCEPT !.codeobj.flags = @ + NewLocals])
    ELSE g)

--------------------------------------------------------------------------
\* Lowering.  Routines that return a value besides changing the generator
\* return a record: [g, code] or [g, pts].

RECURSIVE codegen_expr(_, _)
RECURSIVE CodegenExprs(_, _)
RECURSIVE BlockStmts(_, _)
RECURSIVE StoreParams(_, _)
RECURSIVE codegen_frameless_block(_, _, _)
RECURSIVE codegen_typedef_block(_, _, _)
RECURSIVE codegen_block(_, _, _, _)
RECURSIVE emit_var_pat(_, _, _)
RECURSIVE VarPats(_, _, _)
RECURSIVE emit_mono_type_def(_, _)
RECURSIVE emit_var_def(_, _)
RECURSIVE emit_subr_def(_, _)
RECURSIVE emit_discard_instr(_, _)
RECURSIVE emit_if_instr(_, _)
RECURSIVE IfBranch(_, _)
RECURSIVE emit_for_instr(_, _)
RECURSIVE emit_match_instr(_, _, _)
RECURSIVE MatchArms(_, _, _, _)
RECURSIVE emit_match_pattern(_, _)
RECURSIVE MatchElems(_, _, _)
RECURSIVE emit_call_name(_, _, _)
RECURSIVE emit_call_method(_, _, _, _, _)
RECURSIVE emit_call_callable_obj(_, _, _)
RECURSIVE emit_assert_instr(_, _)

\* emit_call_name without the "discard" arm: discard is called like any
\* other name.
emit_call_name_no_discard(g, name, args) ==
    IF name = <<"discard">>
    THEN LET g0 == [g EXCEPT !.owner = name]
             g1 == emit_load_name_instr(g0, name)
             g2 == CodegenExprs(g1, ArgsAll(args))
         IN stack_dec_n(Emit(g2, "CALL_FUNCTION", ArgsLen(args)),
                        ArgsLen(args))
    ELSE CASE name = <<"assert">> ->
                 emit_assert_instr([g EXCEPT !.owner = name], args)
           [] name \in {<<"for">>, <<"for", "!">>} ->
                 emit_for_instr([g EXCEPT !.owner = name], args)
           [] name \in {<<"if">>, <<"if", "!">>} ->
                 emit_if_instr([g EXCEPT !.owner = name], args)
           [] name \in {<<"match">>, <<"match", "!">>} ->
                 emit_match_instr([g EXCEPT !.owner = name], args, TRUE)
           [] OTHER ->
                 LET g0 == [g EXCEPT !.owner = name]
                     g1 == emit_load_name_instr(g0, name)
                     g2 == CodegenExprs(g1, ArgsAll(args))
                 IN stack_dec_n(Emit(g2, "CALL_FUNCTION", ArgsLen(args)),
                                ArgsLen(args))

\* codegen_expr over a sequence of expressions, in order.
CodegenExprs(g, exprs) ==
    IF exprs = <<>> THEN g
    ELSE CodegenExprs(codegen_expr(g, Head(exprs)), Tail(exprs))

\* The history entry of a statement whose round of the loop has ended.
NoteStmt(self, arm, h0, before, after, popped) ==
    Bind(self, LAMBDA g :
    IF Crashed(g) THEN g
    ELSE SetCur(g, [cur_block(g) EXCEPT !.g_stmt =
                        Append(@, [arm |-> arm, h0 |-> h0,
                                   before |-> before, after |-> after,
                                   popped |-> popped])]))

\* The callee names emit_call_name lowers inline.
Intrinsics ==
    {<<"assert">>, <<"discard">>, <<"for">>, <<"for", "!">>, <<"if">>,
     <<"if", "!">>, <<"match">>, <<"match", "!">>}

\* The arm of codegen_expr and of the routine it calls that lowers expr.
ArmOf(expr) ==
    CASE expr.k = "VarDef" ->
            IF expr.is_type THEN "TypeDef"
            ELSE IF expr.pat.k = "Array" THEN "ArrayDef" ELSE "VarDef"
      [] expr.k = "Call" ->
            IF expr.obj.k = "Attr" THEN "MethodCall"
            ELSE IF expr.obj.k # "Local" THEN "ObjCall"
            ELSE IF expr.obj.name \in Intrinsics THEN "Control"
            ELSE IF expr.args.kw # <<>> THEN "KwCall" ELSE "Call"
      [] OTHER -> expr.k

\* One round of a statement loop: codegen_expr, then POP_TOP when exactly
\* one value is left.  h0 is stack_len when the loop began.
StmtStep(self, expr, h0) ==
    Bind(self, LAMBDA g :
    IF Crashed(g) THEN g
    ELSE Bind(codegen_expr(g, expr), LAMBDA g1 :
         IF Crashed(g1) THEN g1
         ELSE NoteStmt(IF cur_block(g1).stack_len = 1 THEN emit_pop_top(g1)
                       ELSE g1,
                       ArmOf(expr), h0, cur_block(g).stack_len,
                       cur_block(g1).stack_len,
                       cur_block(g1).stack_len = 1)))

RECURSIVE BlockLoop(_, _, _)
BlockLoop(self, block, h0) ==
    Bind(self, LAMBDA g :
    IF block = <<>> \/ Crashed(g) THEN g
    ELSE BlockLoop(StmtStep(g, Head(block), h0), Tail(block), h0))

\* The statement loop of a block.
BlockStmts(self, block) ==
    Bind(self, LAMBDA g :
    IF block = <<>> \/ Crashed(g) THEN g
    ELSE BlockLoop(g, block, cur_block(g).stack_len))

StoreParams(g, params) ==
    IF params = <<>> THEN g
    ELSE StoreParams(emit_store_instr(g, Head(params), "Name"),
                     Tail(params))

codegen_frameless_block(g, block, params) ==
    cancel_pop_top(BlockStmts(StoreParams(g, params), block))

\* The positional arguments, then the keyword arguments, then the call
\* instruction and its stack effect: the tail shared by emit_call_name,
\* emit_call_method and emit_call_callable_obj.  extra is what the
\* argument byte and the decrement add to argc.
CallTail(g, args, plain_op, arg_extra, dec_extra) ==
    LET argc == ArgsLen(args)
        g1 == CodegenExprs(g, args.pos)
        g2 == CodegenExprs(g1, [i \in 1..Len(args.kw) |-> args.kw[i].expr])
        kws == [i \in 1..Len(args.kw) |-> VStr(args.kw[i].keyword)]
        kwsc == IF kws # <<>> THEN 1 ELSE 0
        g3 == IF kws # <<>>
              THEN write_instr(emit_load_const(g2, VTuple(kws)),
                               "CALL_FUNCTION_KW")
              ELSE write_instr(g2, plain_op)
    IN stack_dec_n(write_arg(g3, arg_extra + argc),
                   dec_extra + argc + kwsc)

emit_call_name(g, name, args) ==
    CASE name = <<"assert">> ->
            emit_assert_instr([g EXCEPT !.owner = name], args)
      [] name = <<"discard">> ->
            emit_discard_instr([g EXCEPT !.owner = name], args)
      [] name \in {<<"for">>, <<"for", "!">>} ->
            emit_for_instr([g EXCEPT !.owner = name], args)
      [] name \in {<<"if">>, <<"if", "!">>} ->
            emit_if_instr([g EXCEPT !.owner = name], args)
      [] name \in {<<"match">>, <<"match", "!">>} ->
            emit_match_instr([g EXCEPT !.owner = name], args, TRUE)
      [] OTHER ->
            CallTail(emit_load_name_instr([g EXCEPT !.owner = name], name),
                     args, "CALL_FUNCTION", 0, 0)

emit_call_method(g, obj, name, args, is_static) ==
    IF is_static
    THEN CallTail(emit_load_name_instr(g, name), args,
                  "CALL_FUNCTION", 1, 1)
    ELSE LET class == ref_t_name(obj)
             uniq_obj_name == uniq_name(obj)
             g1 == codegen_expr(g, obj)
             g2 == emit_load_method_instr(g1, class, uniq_obj_name, name)
         IN CallTail(g2, args, "CALL_METHOD", 0, 0)

emit_call_callable_obj(g, obj, args) ==
    CallTail(codegen_expr(g, obj), args, "CALL_FUNCTION", 0, 0)

emit_var_pat(self, pat, op_is_def) ==
    Bind(self, LAMBDA g :
    IF Crashed(g) THEN g
    ELSE CASE pat.k = "VarName" ->
                 IF op_is_def THEN emit_store_instr(g, pat.name, "Name")
                 ELSE Die(g, "panic")   \* todo!()
           [] pat.k = "Array" ->
                 IF ~op_is_def THEN Die(g, "panic")  \* switch_unreachable!()
                 ELSE LET g1 == Emit(g, "UNPACK_SEQUENCE", Len(pat.elems))
                          g2 == IF Len(pat.elems) = 0 /\ overflow_checks
                                THEN Die(g1, "panic")  \* a.len() - 1
                                ELSE stack_inc_n(g1, Len(pat.elems) - 1)
                      IN VarPats(g2, pat.elems, op_is_def)
           [] OTHER -> Die(g, "panic"))  \* todo!()

VarPats(g, sigs, op_is_def) ==
    IF sigs = <<>> THEN g
    ELSE VarPats(emit_var_pat(g, Head(sigs).pat, op_is_def), Tail(sigs),
                 op_is_def)

emit_mono_type_def(self, def) ==
    Bind(self, LAMBDA g :
    IF Crashed(g) THEN g
    ELSE IF def.pat.k # "VarName"   \* unwrap()
    THEN Die(stack_inc(Emit(g, "LOAD_BUILD_CLASS", 0)), "panic")
    ELSE Bind(codegen_typedef_block(
                  stack_inc(Emit(g, "LOAD_BUILD_CLASS", 0)),
                  def.pat.name, def.block), LAMBDA r :
         LET name == def.pat.name
             g2 == emit_load_const(r.g, VCode(r.code))
             g3 == emit_load_const(g2, VStr(name))
             g4 == Emit(g3, "MAKE_FUNCTION", 0)
             g5 == emit_load_const(g4, VStr(name))
             g6 == Emit(g5, "CALL_FUNCTION", 2)
             g7 == stack_dec_n(g6, (1 + 2) - 1)
         IN emit_store_instr(g7, name, "Name")))

emit_var_def(g, def) ==
    IF def.is_type THEN emit_mono_type_def(g, def)
    ELSE LET g1 == IF Len(def.block) = 1
                   THEN codegen_expr(g, def.block[1])
                   ELSE codegen_frameless_block(g, def.block, <<>>)
         IN emit_var_pat(g1, def.pat, def.op_is_def)

RECURSIVE LoadClosures(_, _, _)
LoadClosures(g, i, n) ==
    IF i >= n THEN g ELSE LoadClosures(Emit(g, "LOAD_CLOSURE", i), i + 1, n)

\* The cellvars of the units on the stack, bottom first.
CellvarsOfUnits(g) == [i \in 1..Len(g.units) |-> g.units[i].codeobj.cellvars]

\* The history entry of a subroutine definition whose lowering has ended.
NoteSubr(self, idx, code, before, after) ==
    Bind(self, LAMBDA g :
    IF Crashed(g) THEN g
    ELSE SetCur(g, [cur_block(g) EXCEPT !.g_subr =
                        Append(@, [at |-> idx, cells |-> code.cellvars,
                                   before |-> before, after |-> after])]))

\* emit_subr_def after the code object has been loaded.
SubrDefTail(g1, name) ==
    Bind(g1, LAMBDA g :
    IF Crashed(g) THEN g
    ELSE LET cellvars_len == Len(cur_block(g).codeobj.cellvars) % 256
             has_cells == cur_block(g).codeobj.cellvars # <<>>
             g2 == IF has_cells
                   THEN Emit(LoadClosures(g, 0, cellvars_len),
                             "BUILD_TUPLE", cellvars_len)
                   ELSE g
             opcode_flag == IF has_cells THEN 8 ELSE 0
             g3 == emit_load_const(g2, VStr(name))
             g4 == stack_dec(Emit(g3, "MAKE_FUNCTION", opcode_flag))
         IN emit_store_instr(g4, name, "Name"))

emit_subr_def(self, def) ==
    Bind(self, LAMBDA g :
    IF Crashed(g) THEN g
    ELSE Bind(codegen_block(g, def.block, <<def.name>>,
                            gen_param_names(def.params)), LAMBDA r :
         Bind(emit_load_const(r.g, VCode(r.code)), LAMBDA g1 :
         NoteSubr(SubrDefTail(g1, def.name), cur_block(r.g).lasti, r.code,
                  CellvarsOfUnits(g), CellvarsOfUnits(r.g)))))

emit_discard_instr(self, args) ==
    Bind(self, LAMBDA g :
    IF ArgsAll(args) = <<>> \/ Crashed(g) THEN g
    ELSE emit_discard_instr(
             emit_pop_top(codegen_expr(g, Head(ArgsAll(args)))),
             Args(Tail(ArgsAll(args)), <<>>)))

\* A branch of `if`: a lambda is inlined, anything else is an expression.
IfBranch(g, expr) ==
    IF expr.k = "Lambda"
    THEN codegen_frameless_block(g, expr.body, gen_param_names(expr.params))
    ELSE codegen_expr(g, expr)

\* The history entry of an `if` whose lowering has ended.
NoteIf(self, idx_pop_jump_if_false, idx_jump_forward, idx_end) ==
    Bind(self, LAMBDA g :
    IF Crashed(g) THEN g
    ELSE SetCur(g, [cur_block(g) EXCEPT !.g_if =
                        Append(@, [j1 |-> idx_pop_jump_if_false,
                                   j2 |-> idx_jump_forward,
                                   end |-> idx_end])]))

\* The else branch without the patch of the false-jump: its argument
\* stays 0.
IfElseUnpatched(self, expr, idx_pop_jump_if_false) ==
    Bind(Emit(self, "JUMP_FORWARD", 0), LAMBDA g4 :
    LET idx_else_begin == cur_block(g4).lasti
        idx_jump_forward == idx_else_begin - 2
    IN Bind(IfBranch(g4, expr), LAMBDA g6 :
       LET idx_end == cur_block(g6).lasti
       IN NoteIf(stack_dec(stack_dec(
                     edit_code(g6, idx_jump_forward + 1,
                               (idx_end - idx_jump_forward - 2) \div 2))),
                 idx_pop_jump_if_false, idx_jump_forward, idx_end)))

\* The else branch of emit_if_instr, from JUMP_FORWARD on.
IfElse(self, expr, idx_pop_jump_if_false) ==
    Bind(Emit(self, "JUMP_FORWARD", 0), LAMBDA g4 :
    LET idx_else_begin == cur_block(g4).lasti
        idx_jump_forward == idx_else_begin - 2
    IN Bind(IfBranch(edit_code(g4, idx_pop_jump_if_false + 1,
                               idx_else_begin \div 2), expr), LAMBDA g6 :
       LET idx_end == cur_block(g6).lasti
       IN NoteIf(stack_dec(stack_dec(
                     edit_code(g6, idx_jump_forward + 1,
                               (idx_end - idx_jump_forward - 2) \div 2))),
                 idx_pop_jump_if_false, idx_jump_forward, idx_end)))

emit_if_instr(self, args) ==
    Bind(self, LAMBDA g :
    LET all == ArgsAll(args)
    IN IF Crashed(g) THEN g
       ELSE IF Len(all) < 2 THEN Die(g, "panic")  \* args.remove(0)
       ELSE
       Bind(codegen_expr(g, all[1]), LAMBDA g1 :
       LET idx_pop_jump_if_false == cur_block(g1).lasti
       IN Bind(IfBranch(Emit(g1, "POP_JUMP_IF_FALSE", 0), all[2]),
               LAMBDA g3 :
          IF Len(all) > 2
          THEN IfElse(g3, all[3], idx_pop_jump_if_false)
          ELSE LET idx_end == cur_block(g3).lasti
               IN NoteIf(stack_dec(edit_code(g3, idx_pop_jump_if_false + 1,
                                             idx_end \div 2)),
                         idx_pop_jump_if_false, -1, idx_end))))

\* The history entry of a `for` whose lowering has ended.
NoteFor(self, idx_for_iter, idx_end) ==
    Bind(self, LAMBDA g :
    IF Crashed(g) THEN g
    ELSE SetCur(g, [cur_block(g) EXCEPT !.g_for =
                        Append(@, [j |-> idx_for_iter, end |-> idx_end])]))

\* The end of emit_for_instr without the patch of FOR_ITER: its argument
\* stays 0.
ForTailUnpatched(self, idx_for_iter) ==
    Bind(Emit(self, "JUMP_ABSOLUTE", idx_for_iter \div 2), LAMBDA g4 :
    NoteFor(emit_load_const(g4, VNone), idx_for_iter, cur_block(g4).lasti))

\* emit_for_instr after the body: the back-edge, the patch of FOR_ITER and
\* the None the loop leaves.
ForTail(self, idx_for_iter) ==
    Bind(Emit(self, "JUMP_ABSOLUTE", idx_for_iter \div 2), LAMBDA g4 :
    LET idx_end == cur_block(g4).lasti
        g5 == edit_code(g4, idx_for_iter + 1,
                        (idx_end - idx_for_iter - 2) \div 2)
    IN NoteFor(emit_load_const(g5, VNone), idx_for_iter, idx_end))

emit_for_instr(self, args) ==
    Bind(self, LAMBDA g :
    LET all == ArgsAll(args)
    IN IF Crashed(g) THEN g
       ELSE IF Len(all) < 2 \/ all[2].k # "Lambda"
       THEN Die(g, "panic")  \* args.remove(0), enum_unwrap!
       ELSE
       Bind(Emit(codegen_expr(g, all[1]), "GET_ITER", 0), LAMBDA g1 :
       LET idx_for_iter == cur_block(g1).lasti
           g2 == Emit(g1, "FOR_ITER", 0)
           g3 == codegen_frameless_block(g2, all[2].body,
                                         gen_param_names(all[2].params))
       IN ForTail(g3, idx_for_iter)))

RECURSIVE PatchPopJumps(_, _, _)
\* The fixups after an arm: every false-jump of the arm is patched to
\* lasti + 2 and a JUMP_ABSOLUTE 0 is written and recorded.
PatchPopJumps(self, pop_jump_points, absolute_jump_points) ==
    Bind(self, LAMBDA g :
    IF pop_jump_points = <<>>
    THEN [g |-> g, pts |-> absolute_jump_points]
    ELSE LET idx == cur_block(g).lasti + 2
         IN Bind(edit_code(g, Head(pop_jump_points) + 1, idx \div 2),
                 LAMBDA g1 :
            PatchPopJumps(Emit(g1, "JUMP_ABSOLUTE", 0),
                          Tail(pop_jump_points),
                          Append(absolute_jump_points,
                                 cur_block(g1).lasti))))

RECURSIVE PatchAbsoluteJumps(_, _, _)
PatchAbsoluteJumps(g, absolute_jump_points, lasti) ==
    IF absolute_jump_points = <<>> THEN g
    ELSE PatchAbsoluteJumps(
             edit_code(g, Head(absolute_jump_points) + 1, lasti \div 2),
             Tail(absolute_jump_points), lasti)

\* The history entry of a match arm whose lowering has ended.
NoteArm(self, dup, is_last, pop_jump_points, jumps) ==
    Bind(self, LAMBDA g :
    IF Crashed(g) THEN g
    ELSE SetCur(g, [cur_block(g) EXCEPT !.g_arms =
                        Append(@, [dup |-> dup, last |-> is_last,
                                   pops |-> pop_jump_points,
                                   jumps |-> jumps])]))

\* The history entry of a `match` whose lowering has ended.
NoteMatch(self, absolute_jump_points, lasti) ==
    Bind(self, LAMBDA g :
    IF Crashed(g) THEN g
    ELSE SetCur(g, [cur_block(g) EXCEPT !.g_match =
                        Append(@, [jumps |-> absolute_jump_points,
                                   lasti |-> lasti])]))

\* The `while let Some(expr) = args.try_remove(0)` loop of emit_match_instr;
\* len is the number of arms, arms those not lowered yet.
MatchArms(self, arms, len, absolute_jump_points) ==
    Bind(self, LAMBDA g :
    IF arms = <<>> \/ Crashed(g)
    THEN [g |-> g, pts |-> absolute_jump_points]
    ELSE LET lambda == Head(arms)
             g1 == IF len > 1 /\ Len(arms) > 1
                   THEN stack_inc(Emit(g, "DUP_TOP", 0))
                   ELSE g
         IN IF lambda.k # "Lambda"                    \* enum_unwrap!
               \/ lambda.params.defaults # <<>>       \* todo!()
               \/ lambda.params.non_defaults = <<>>   \* remove(0)
            THEN [g |-> Die(g1, "panic"), pts |-> absolute_jump_points]
            ELSE Bind(emit_match_pattern(
                          g1, lambda.params.non_defaults[1].pat), LAMBDA r :
                 Bind(PatchPopJumps(
                          codegen_frameless_block(r.g, lambda.body, <<>>),
                          r.pts, absolute_jump_points), LAMBDA q :
                 MatchArms(NoteArm(q.g, len > 1 /\ Len(arms) > 1,
                                   Len(arms) = 1, r.pts,
                                   SubSeq(q.pts,
                                          Len(absolute_jump_points) + 1,
                                          Len(q.pts))),
                           Tail(arms), len, q.pts))))

emit_match_instr(self, args, use_erg_specific) ==
    Bind(self, LAMBDA g :
    LET all == ArgsAll(args)
    IN IF Crashed(g) THEN g
       ELSE IF all = <<>> THEN Die(g, "panic")  \* args.remove(0)
       ELSE Bind(MatchArms(codegen_expr(g, all[1]), Tail(all),
                           Len(all) - 1, <<>>), LAMBDA r :
            NoteMatch(PatchAbsoluteJumps(r.g, r.pts, cur_block(r.g).lasti),
                      r.pts, cur_block(r.g).lasti)))

\* emit_match_pattern over the elements of an array pattern.
MatchElems(g, elems, pop_jump_points) ==
    IF elems = <<>> THEN [g |-> g, pts |-> pop_jump_points]
    ELSE Bind(emit_match_pattern(g, Head(elems).pat), LAMBDA r :
         MatchElems(r.g, Tail(elems), pop_jump_points \o r.pts))

\* The Array arm of emit_match_pattern.
MatchArray(self, pat) ==
    Bind(Emit(self, "MATCH_SEQUENCE", 0), LAMBDA g1 :
    LET len == Len(pat.elems.non_defaults) + Len(pat.elems.defaults)
        g2 == stack_dec(Emit(g1, "POP_JUMP_IF_FALSE", 0))
        g3 == Emit(g2, "GET_LEN", 0)
        g4 == emit_load_const(g3, VNat(len))
    IN Bind(stack_dec(Emit(g4, "COMPARE_OP", 2)), LAMBDA g5 :
       LET g6 == stack_dec(Emit(g5, "POP_JUMP_IF_FALSE", 0))
           g7 == Emit(g6, "UNPACK_SEQUENCE", len)
           g8 == IF len = 0 /\ overflow_checks
                 THEN Die(g7, "panic")  \* len - 1
                 ELSE stack_inc_n(g7, len - 1)
       IN Bind(MatchElems(g8, pat.elems.non_defaults,
                          <<cur_block(g1).lasti, cur_block(g5).lasti>>),
               LAMBDA r :
          IF pat.elems.defaults # <<>>
          THEN [g |-> Die(r.g, "panic"), pts |-> r.pts]  \* todo!()
          ELSE r)))

emit_match_pattern(self, pat) ==
    Bind(self, LAMBDA g :
    IF Crashed(g) THEN [g |-> g, pts |-> <<>>]
    ELSE
    CASE pat.k = "VarName" ->
            [g |-> emit_store_instr(g, pat.name, "Name"), pts |-> <<>>]
      [] pat.k = "Lit" ->
            Bind(stack_dec(Emit(emit_load_const(g, pat.data),
                                "COMPARE_OP", 2)), LAMBDA g2 :
            [g |-> stack_dec(emit_pop_top(
                       Emit(g2, "POP_JUMP_IF_FALSE", 0))),
             pts |-> <<cur_block(g2).lasti>>])
      [] pat.k = "Array" -> MatchArray(g, pat)
      [] OTHER -> [g |-> Die(g, "panic"), pts |-> <<>>])  \* todo!()

emit_assert_instr(self, args) ==
    Bind(self, LAMBDA g :
    LET all == ArgsAll(args)
    IN IF Crashed(g) THEN g
       ELSE IF all = <<>> THEN Die(g, "panic")  \* args.remove(0)
       ELSE
       Bind(codegen_expr(g, all[1]), LAMBDA g1 :
       LET pop_jump_point == cur_block(g1).lasti
           g2 == stack_dec(Emit(g1, "POP_JUMP_IF_TRUE", 0))
           g3 == Emit(g2, "LOAD_ASSERTION_ERROR", 0)
           g4 == IF Len(all) > 1
                 THEN Emit(codegen_expr(g3, all[2]), "CALL_FUNCTION", 1)
                 ELSE g3
       IN Bind(Emit(g4, "RAISE_VARARGS", 1), LAMBDA g5 :
          edit_code(g5, pop_jump_point + 1, cur_block(g5).lasti \div 2))))

UnaryInstr(op) ==
    CASE op = "PrePlus" -> "UNARY_POSITIVE"
      [] op = "PreMinus" -> "UNARY_NEGATIVE"
      [] op = "Mutate" -> "NOP"
      [] OTHER -> "NOT_IMPLEMENTED"

RangeOps == {"LeftOpen", "RightOpen", "Closed", "Open"}

BinInstr(op) ==
    CASE op = "Plus" -> "BINARY_ADD"
      [] op = "Minus" -> "BINARY_SUBTRACT"
      [] op = "Star" -> "BINARY_MULTIPLY"
      [] op = "Slash" -> "BINARY_TRUE_DIVIDE"
      [] op = "Pow" -> "BINARY_POWER"
      [] op = "Mod" -> "BINARY_MODULO"
      [] op = "AndOp" -> "BINARY_AND"
      [] op = "OrOp" -> "BINARY_OR"
      [] op \in {"Less", "LessEq", "DblEq", "NotEq", "Gre", "GreEq"} ->
            "COMPARE_OP"
      [] op \in RangeOps -> "CALL_FUNCTION"
      [] OTHER -> "NOT_IMPLEMENTED"

BinArg(op, type_pair) ==
    CASE op = "Less" -> 0
      [] op = "LessEq" -> 1
      [] op = "DblEq" -> 2
      [] op = "NotEq" -> 3
      [] op = "Gre" -> 4
      [] op = "GreEq" -> 5
      [] op \in RangeOps -> 2
      [] OTHER -> type_pair

\* The instruction of a unary or binary operator; an operator without an
\* instruction is reported and NOT_IMPLEMENTED is written.
OpInstr(self, instr, arg, expr) ==
    Bind(self, LAMBDA g :
    Emit(IF instr = "NOT_IMPLEMENTED" /\ ~Crashed(g)
         THEN ErrPush(g, "feature_error", expr.ln, expr.op)
         ELSE g,
         instr, arg))

\* The match of codegen_expr.
ExprArm(g, expr) ==
    CASE expr.k = "Lit" -> emit_load_const(g, expr.data)
      [] expr.k = "Local" -> emit_load_name_instr(g, expr.name)
      [] expr.k = "Attr" ->
            emit_load_attr_instr(codegen_expr(g, expr.obj),
                                 ref_t_name(expr.obj), uniq_name(expr.obj),
                                 expr.name)
      [] expr.k = "SubrDef" -> emit_subr_def(g, expr)
      [] expr.k = "VarDef" -> emit_var_def(g, expr)
      [] expr.k = "Lambda" ->
            Bind(codegen_block(g, expr.body, << <<"<lambda>">> >>,
                               gen_param_names(expr.params)), LAMBDA r :
            stack_dec(Emit(emit_load_const(r.g, VStr(<<"<lambda>">>)),
                           "MAKE_FUNCTION", 0)))
      [] expr.k = "UnaryOp" ->
            OpInstr(codegen_expr(g, expr.expr), UnaryInstr(expr.op),
                    expr.tycode, expr)
      [] expr.k = "BinOp" ->
            IF expr.op \in {"LeftOpen", "Closed", "Open"}
            THEN Die(g, "panic")  \* todo!()
            ELSE
            LET g1 == IF expr.op = "RightOpen"
                      THEN emit_load_name_instr(g, <<"range">>)
                      ELSE g
                g2 == codegen_expr(codegen_expr(g1, expr.lhs), expr.rhs)
                g4 == stack_dec(OpInstr(g2, BinInstr(expr.op),
                                        BinArg(expr.op, expr.type_pair),
                                        expr))
            IN IF expr.op \in RangeOps THEN stack_dec(g4) ELSE g4
      [] expr.k = "Call" ->
            IF obj_name(expr.obj) = <<>> THEN Die(g, "panic")  \* unwrap()
            ELSE LET name == obj_name(expr.obj)[1]
                 IN CASE expr.obj.k = "Local" ->
                            emit_call_name(g, name, expr.args)
                      [] expr.obj.k = "Attr" ->
                            emit_call_method(g, expr.obj.obj, name,
                                             expr.args, FALSE)
                      [] OTHER ->
                            emit_call_callable_obj(g, expr.obj, expr.args)
      [] expr.k = "Array" ->
            LET len == Len(expr.elems)
                g1 == Emit(CodegenExprs(g, expr.elems), "BUILD_LIST", len)
            IN IF len = 0 THEN stack_inc(g1) ELSE stack_dec_n(g1, len - 1)
      [] OTHER ->
            Die(ErrPush(g, "feature_error", expr.ln, ""), "bug")

\* owner is history: the callee of the call whose own lowering writes the
\* instructions, <<>> outside one.  It is reset on entry and restored on
\* return, so that a nested expression never counts as its parent's; so is
\* g_at, the line of the expression being lowered.
codegen_expr(self, expr) ==
    Bind(self, LAMBDA g :
    IF Crashed(g) THEN g
    ELSE [ExprArm(LineStep([g EXCEPT !.owner = <<>>], expr), expr)
             EXCEPT !.owner = g.owner,
                    !.units[Len(g.units)].g_at = cur_block(g).g_at])

\* The end of a unit without the check of the height.
StackBugNever(self) == Bind(self, LAMBDA g : g)

\* A stack_bug diagnostic and crash() when more than one value is left.
StackBug(self) ==
    Bind(self, LAMBDA g :
    IF ~Crashed(g) /\ U32Gt(cur_block(g).stack_len, 1)
    THEN Die(ErrPush(g, "stack_bug", cur_block(g).id,
                     cur_block(g).stack_len), "bug")
    ELSE g)

\* The end of a unit: flagging, pop, line hand-over.  Returns [g, code].
FinishUnit(self) ==
    Bind(self, LAMBDA g :
    IF Crashed(g) THEN [g |-> g, code |-> cur_block(g).codeobj]
    ELSE Bind(FlagNewLocals(g), LAMBDA g1 :
         [g |-> PopUnit(g1), code |-> cur_block(g1).codeobj]))

codegen_typedef_block(self, name, block) ==
    Bind(self, LAMBDA g :
    IF Crashed(g) THEN [g |-> g, code |-> cur_block(g).codeobj]
    ELSE IF block = <<>>
    THEN [g |-> Die(g, "panic"), code |-> cur_block(g).codeobj] \* block[0]
    ELSE
    LET g1 == PushUnit(g, <<>>, name, block[1].ln)
        mod_name == toplevel_block(g).codeobj.name
        g2 == emit_store_instr(emit_load_const(g1, VStr(mod_name)),
                               <<"__module__">>, "Attr")
        g3 == emit_store_instr(emit_load_const(g2, VStr(name)),
                               <<"__qualname__">>, "Attr")
        g4 == BlockStmts(g3, block)
        g5 == Emit(emit_load_const(g4, VNone), "RETURN_VALUE", 0)
    IN FinishUnit(StackBug(g5)))

\* The tail shared by codegen_block and codegen: None is padded when the
\* stack is empty, more than one value is a stack bug, RETURN_VALUE.
ReturnTail(self) ==
    Bind(self, LAMBDA g :
    IF Crashed(g) THEN g
    ELSE Emit(IF cur_block(g).stack_len = 0
              THEN emit_load_const(g, VNone)
              ELSE StackBug(g),
              "RETURN_VALUE", 0))

codegen_block(self, block, opt_name, params) ==
    Bind(self, LAMBDA g :
    IF Crashed(g) THEN [g |-> g, code |-> cur_block(g).codeobj]
    ELSE IF block = <<>>
    THEN [g |-> Die([g EXCEPT !.unit_size = @ + 1], "panic"),
          code |-> cur_block(g).codeobj]   \* block.first().unwrap()
    ELSE
    LET name == IF opt_name # <<>> THEN opt_name[1] ELSE <<"<block>">>
        firstlineno == block[1].ln
        g1 == PushUnit(g, params, name, firstlineno)
        g2 == cancel_pop_top(BlockStmts(g1, block))
    IN FinishUnit(ReturnTail(g2)))

--------------------------------------------------------------------------
\* SpecEmit: any sequence of emitter calls.  The generator starts as
\* CodeGenerator::new leaves it; E_Begin is the unit push that opens
\* codegen (the first unit, "<module>") and codegen_block (nested units).

Apply(self) ==
    \E g \in {self} :
        /\ units' = g.units
        /\ unit_size' = g.unit_size
        /\ errs' = g.errs
        /\ crash' = g.crash
        /\ fin' = g.fin

EmitNames == {<<"x">>, <<"print", "!">>}

EmitConsts == {VInt(1), VNone}

EmitParams == {<<>>, <<<<"x">>>>}

Running == crash = "none" /\ Len(units) > 0 /\ nops < MaxOps

InitEmit ==
    /\ units = <<>>
    /\ unit_size = 0
    /\ errs = <<>>
    /\ crash = "none"
    /\ fin = <<>>
    /\ overflow_checks \in BOOLEAN
    /\ is_repl = FALSE
    /\ pc = "emit"
    /\ print_point = 0
    /\ srcln = 1
    /\ nops = 0
    /\ last = [op |-> "new", arg |-> <<>>, len0 |-> 0]
    /\ result = <<>>

\* len0 is the length of the current unit's code before the call.
Frame(op, arg) ==
    /\ nops' = nops + 1
    /\ last' = [op |-> op, arg |-> arg,
                len0 |-> IF Len(units) = 0 THEN 0
                         ELSE Len(cur_block(G).codeobj.code)]
    /\ UNCHANGED <<overflow_checks, is_repl, pc, print_point, srcln, result>>

E_Begin ==
    /\ crash = "none"
    /\ nops < MaxOps
    /\ Len(units) < MaxDepth
    /\ \E params \in EmitParams :
          /\ Len(units) = 0 => params = <<>>
          /\ Apply(PushUnit(G, params,
                            IF Len(units) = 0 THEN <<"<module>">>
                            ELSE <<"<block>">>, 1))
          /\ Frame("push", <<params>>)

E_StackInc == Running /\ Apply(stack_inc(G)) /\ Frame("stack_inc", <<>>)

E_StackDec == Running /\ Apply(stack_dec(G)) /\ Frame("stack_dec", <<>>)

E_StackIncN ==
    /\ Running
    /\ \E n \in 0..MaxN :
          Apply(stack_inc_n(G, n)) /\ Frame("stack_inc_n", <<n>>)

E_StackDecN ==
    /\ Running
    /\ \E n \in 0..MaxN :
          Apply(stack_dec_n(G, n)) /\ Frame("stack_dec_n", <<n>>)

E_LoadConst ==
    /\ Running
    /\ \E c \in EmitConsts :
          Apply(emit_load_const(G, c)) /\ Frame("emit_load_const", <<c>>)

E_LoadName ==
    /\ Running
    /\ \E n \in EmitNames :
          /\ Apply(emit_load_name_instr(G, n))
          /\ Frame("emit_load_name_instr", <<n>>)

E_LoadAttr ==
    /\ Running
    /\ Apply(emit_load_attr_instr(G, "Array!", <<>>, <<"push", "!">>))
    /\ Frame("emit_load_attr_instr", <<<<"push", "!">>>>)

E_LoadMethod ==
    /\ Running
    /\ Apply(emit_load_method_instr(G, "Array!", <<>>, <<"push", "!">>))
    /\ Frame("emit_load_method_instr", <<<<"push", "!">>>>)

E_Store ==
    /\ Running
    /\ \E n \in EmitNames, acc \in {"Name", "Attr"} :
          /\ Apply(emit_store_instr(G, n, acc))
          /\ Frame("emit_store_instr", <<n, acc>>)

E_PopTop == Running /\ Apply(emit_pop_top(G)) /\ Frame("emit_pop_top", <<>>)

E_CancelPopTop ==
    Running /\ Apply(cancel_pop_top(G)) /\ Frame("cancel_pop_top", <<>>)

E_EditCode ==
    /\ Running
    /\ \E idx \in 0..Len(cur_block(G).codeobj.code) :
          /\ Apply(edit_code(G, idx, IF idx % 2 = 0 THEN "NOP" ELSE 1))
          /\ Frame("edit_code", <<idx>>)

NextEmit ==
    \/ E_Begin
    \/ E_StackInc
    \/ E_StackDec
    \/ E_StackIncN
    \/ E_StackDecN
    \/ E_LoadConst
    \/ E_LoadName
    \/ E_LoadAttr
    \/ E_LoadMethod
    \/ E_Store
    \/ E_PopTop
    \/ E_CancelPopTop
    \/ E_EditCode

SpecEmit == InitEmit /\ [][NextEmit]_vars

\* SpecNames: the emitter calls that resolve a name, and no other.
NextNames ==
    \/ E_Begin
    \/ E_LoadName
    \/ E_LoadAttr
    \/ E_LoadMethod
    \/ E_Store

SpecNames == InitEmit /\ [][NextNames]_vars

--------------------------------------------------------------------------
\* Spec: codegen on a module.  The HIR is read one statement at a time;
\* each statement is one of the programs below, placed at the next source
\* line.  A program is [id, e, h]: its expression and the number of source
\* lines it takes.

\* Spec: the number of statements of the module.
MaxStmts == 2
\* Spec: a statement starts at most this many lines after the end of the
\* statement before it (0: on the same line).
MaxAdv == 1
\* Spec: the number of codegen calls made on the one generator.
MaxRuns == 2

P(id, e, h) == [id |-> id, e |-> e, h |-> h]

V(ln, name) == Local(ln, <<name>>, "Int")

One(ln) == Lit(ln, VInt(1))

Pos(exprs) == Args(exprs, <<>>)

\* do: block  (a lambda without parameters)
Do(ln, block) == Lambda(ln, Params(<<>>, <<>>), block)

\* i -> block
Fn(ln, param, block) == Lambda(ln, Params(<<PVar(<<param>>)>>, <<>>), block)

Let(ln, name, expr) == VarDef(ln, PVar(<<name>>), <<expr>>, FALSE, TRUE)

CallName(ln, name, exprs) == Call(Local(ln, name, "Subr"), Pos(exprs))

\* Statements that can follow any statement.
Followers(b) ==
    { P("lit", One(b), 1),
      P("name", V(b, "x"), 1),
      P("let", Let(b, "x", One(b)), 1),
      P("print", CallName(b, <<"print", "!">>, <<V(b, "x")>>), 1),
      P("if_discard",
        CallName(b, <<"if">>,
                 <<V(b, "c"),
                   Do(b, <<CallName(b, <<"discard">>, <<V(b, "x")>>)>>)>>),
        1),
      P("subr_lines",
        SubrDef(b, <<"f">>, Params(<<PVar(<<"i">>)>>, <<>>),
                <<Let(b + 1, "y", V(b + 1, "i")), V(b + 2, "y")>>), 3) }

\* Expressions and definitions.
Values(b) ==
    { P("proc", Local(b, <<"print", "!">>, "Subr"), 1),
      P("let_below", Let(b, "x", One(b + 1)), 2),
      P("let_block",
        VarDef(b, PVar(<<"x">>), <<Let(b + 1, "y", One(b + 1)),
                                   V(b + 2, "y")>>, FALSE, TRUE), 3),
      P("let_array",
        VarDef(b, PArr(<<[pat |-> PVar(<<"a">>)], [pat |-> PVar(<<"b">>)]>>),
               <<V(b, "xs")>>, FALSE, TRUE), 1),
      P("let_discard", VarDef(b, PDiscard, <<One(b)>>, FALSE, TRUE), 1),
      P("typedef",
        VarDef(b, PVar(<<"T">>), <<Let(b + 1, "x", One(b + 1))>>,
               TRUE, TRUE), 2),
      P("attr", Attr(Local(b, <<"x">>, "Int"), <<"Real">>), 1),
      P("neg", UnaryOp(b, "PreMinus", V(b, "x"), 2), 1),
      P("unary_other", UnaryOp(b, "PreStar", V(b, "x"), 2), 1),
      P("add", BinOp("Plus", V(b, "x"), One(b), 3), 1),
      P("less", BinOp("Less", V(b, "x"), One(b), 3), 1),
      P("range", BinOp("RightOpen", One(b), V(b, "x"), 3), 1),
      P("closed", BinOp("Closed", One(b), V(b, "x"), 3), 1),
      P("bin_other", BinOp("Pipe", V(b, "x"), One(b), 3), 1),
      P("array", Array(b, <<One(b), V(b, "x")>>), 1),
      P("array0", Array(b, <<>>), 1),
      P("lambda", Fn(b, "i", <<V(b, "i")>>), 1),
      P("subr", SubrDef(b, <<"f">>, Params(<<PVar(<<"i">>)>>, <<>>),
                        <<V(b, "i")>>), 1),
      P("closure",
        SubrDef(b, <<"g">>, Params(<<PVar(<<"i">>)>>, <<>>),
                <<Let(b + 1, "y", V(b + 1, "i")),
                  Fn(b + 2, "z", <<BinOp("Plus", V(b + 2, "z"),
                                         V(b + 2, "y"), 3)>>)>>), 3),
      P("closure_y",
        SubrDef(b, <<"g">>, Params(<<PVar(<<"x">>)>>, <<>>),
                <<Let(b, "y", BinOp("Plus", V(b, "x"), One(b), 3)),
                  Fn(b, "z", <<BinOp("Plus", V(b, "z"), V(b, "y"), 3)>>)>>),
        1),
      P("subr_subr",
        SubrDef(b, <<"f">>, Params(<<PVar(<<"i">>)>>, <<>>),
                <<SubrDef(b + 1, <<"g">>, Params(<<PDiscard>>, <<>>),
                          <<V(b + 2, "i")>>),
                  V(b + 3, "g")>>), 4),
      P("subr_siblings",
        SubrDef(b, <<"f">>, Params(<<PVar(<<"i">>)>>, <<>>),
                <<SubrDef(b, <<"g">>, Params(<<PDiscard>>, <<>>),
                          <<V(b, "i")>>),
                  SubrDef(b, <<"h">>, Params(<<PDiscard>>, <<>>),
                          <<One(b)>>),
                  V(b, "h")>>), 1),
      P("subr_deep",
        SubrDef(b, <<"f">>, Params(<<PVar(<<"i">>)>>, <<>>),
                <<SubrDef(b, <<"g">>, Params(<<PDiscard>>, <<>>),
                          <<SubrDef(b, <<"h">>, Params(<<PDiscard>>, <<>>),
                                    <<V(b, "i")>>),
                            V(b, "h")>>),
                  V(b, "g")>>), 1),
      P("subr_proc",
        SubrDef(b, <<"f">>, Params(<<PVar(<<"p", "!">>)>>, <<>>),
                <<Local(b, <<"p", "!">>, "Subr")>>), 1),
      P("dict", Dict(b), 1) }

\* Calls.
Calls(b) ==
    { P("call0", CallName(b, <<"f">>, <<>>), 1),
      P("call_kw",
        Call(Local(b, <<"f">>, "Subr"),
             Args(<<V(b, "x")>>, <<[keyword |-> <<"k">>, expr |-> One(b)]>>)),
        1),
      P("call_discards",
        CallName(b, <<"f">>, <<CallName(b, <<"discard">>, <<One(b)>>),
                               CallName(b, <<"discard">>, <<V(b, "x")>>)>>),
        1),
      P("method",
        Call(Attr(Local(b, <<"xs">>, "Array!"), <<"push", "!">>),
             Pos(<<One(b)>>)), 1),
      P("call_self", Call(SelfDot(b, <<"f">>), Pos(<<>>)), 1),
      P("call_lit", Call(One(b), Pos(<<>>)), 1),
      P("if", CallName(b, <<"if">>, <<V(b, "c"), Do(b, <<One(b)>>)>>), 1),
      P("if_expr", CallName(b, <<"if">>, <<V(b, "c"), One(b)>>), 1),
      P("if_else",
        CallName(b, <<"if", "!">>,
                 <<CallName(b, <<"f">>, <<V(b, "x")>>),
                   Do(b, <<Let(b + 1, "y", One(b + 1)), V(b + 2, "y")>>),
                   Do(b + 3, <<One(b + 4)>>)>>), 5),
      P("for",
        CallName(b, <<"for", "!">>,
                 <<V(b, "xs"), Fn(b, "i", <<Let(b, "y", V(b, "i"))>>)>>), 1),
      P("for_print",
        CallName(b, <<"for">>,
                 <<V(b, "xs"),
                   Fn(b, "i", <<CallName(b + 1, <<"print", "!">>,
                                         <<V(b + 1, "i")>>)>>)>>), 2),
      P("match",
        CallName(b, <<"match">>,
                 <<V(b, "x"),
                   Lambda(b + 1, Params(<<PLit(VInt(1))>>, <<>>),
                          <<Lit(b + 1, VInt(2))>>),
                   Fn(b + 2, "y", <<V(b + 2, "y")>>)>>), 3),
      P("match_array",
        CallName(b, <<"match", "!">>,
                 <<V(b, "xs"),
                   Lambda(b, Params(<<PArr(Params(<<PVar(<<"a">>),
                                                   PLit(VInt(1))>>, <<>>))>>,
                                    <<>>),
                          <<V(b, "a")>>)>>), 1),
      P("match_pair",
        CallName(b, <<"f">>,
          <<V(b, "x"),
            CallName(b, <<"match">>,
                     <<V(b, "xs"),
                       Lambda(b, Params(<<PArr(Params(<<PVar(<<"a">>),
                                                       PVar(<<"b">>)>>,
                                                      <<>>))>>, <<>>),
                              <<V(b, "a")>>),
                       Fn(b, "y", <<V(b, "y")>>)>>)>>), 1),
      P("match_discard",
        CallName(b, <<"match">>,
                 <<V(b, "x"),
                   Lambda(b, Params(<<PDiscard>>, <<>>), <<One(b)>>)>>), 1),
      P("match_default",
        CallName(b, <<"match">>,
                 <<V(b, "x"),
                   Lambda(b, Params(<<PVar(<<"y">>)>>, <<PVar(<<"z">>)>>),
                          <<One(b)>>)>>), 1),
      P("assert", CallName(b, <<"assert">>, <<V(b, "c")>>), 1),
      P("assert_msg",
        CallName(b, <<"assert">>,
                 <<CallName(b, <<"f">>, <<V(b, "c")>>),
                   Lit(b, VStr(<<"msg">>))>>), 1),
      P("discard", CallName(b, <<"discard">>, <<V(b, "x")>>), 1),
      P("discard_call",
        CallName(b, <<"discard">>, <<CallName(b, <<"f">>, <<>>)>>), 1) }

\* The module's first statement is any program; the statements after it
\* are followers.
Stmts(b, first) ==
    IF first THEN Followers(b) \cup Values(b) \cup Calls(b) ELSE Followers(b)

Init ==
    /\ units = <<>>
    /\ unit_size = 0
    /\ errs = <<>>
    /\ crash = "none"
    /\ fin = <<>>
    /\ overflow_checks \in BOOLEAN
    /\ is_repl \in BOOLEAN
    /\ pc = "start"
    /\ print_point = 0
    /\ srcln = 0
    /\ nops = 0
    /\ last = [op |-> "new", arg |-> <<>>, len0 |-> 0]
    /\ result = <<>>

\* The number of codegen calls that have returned: each popped its
\* <module> unit.
Runs == Cardinality({i \in 1..Len(fin) :
                        fin[i].codeobj.name = <<"<module>">>})

\* codegen up to the statement loop; the generator is a new one or one
\* whose last codegen call has returned.
CodegenBegin ==
    /\ pc \in {"start", "done"}
    /\ crash = "none"
    /\ Runs < MaxRuns
    /\ \E g1 \in {PushUnit(G, <<>>, <<"<module>">>, 1)} :
          /\ Apply(IF is_repl THEN emit_load_name_instr(g1, <<"print">>)
                   ELSE g1)
          /\ print_point' = IF is_repl THEN cur_block(g1).lasti ELSE 0
    /\ pc' = "stmts"
    /\ srcln' = 0
    /\ last' = [op |-> "codegen", arg |-> <<>>, len0 |-> 0]
    /\ UNCHANGED <<overflow_checks, is_repl, nops, result>>

\* stack_len when the statement loop of codegen began: 1 in the REPL, where
\* `print` has been loaded.
ModuleHeight ==
    LET u == cur_block(G)
    IN IF u.g_stmt = <<>> THEN u.stack_len ELSE u.g_stmt[Len(u.g_stmt)].h0

\* One round of the statement loop of codegen.  last.arg lists the ids of
\* the statements lowered so far.
CodegenStmt ==
    /\ pc = "stmts"
    /\ crash = "none"
    /\ nops < MaxStmts
    /\ \E adv \in 0..MaxAdv :
          /\ srcln = 0 => adv = 1
          /\ \E p \in Stmts(srcln + adv, nops = 0 /\ Runs = 0) :
                /\ Apply(StmtStep(G, p.e, ModuleHeight))
                /\ srcln' = srcln + adv + p.h - 1
                /\ last' = [op |-> "codegen",
                            arg |-> Append(last.arg, p.id),
                            len0 |-> Len(cur_block(G).codeobj.code)]
    /\ nops' = nops + 1
    /\ UNCHANGED <<overflow_checks, is_repl, pc, print_point, result>>

\* The print call that ends codegen in the REPL.
ReplTail(self) ==
    Bind(self, LAMBDA g :
    IF ~is_repl \/ Crashed(g) THEN g
    ELSE stack_dec(IF cur_block(g).stack_len = 1
                   THEN edit_code(g, print_point, "NOP")
                   ELSE Emit(g, "CALL_FUNCTION", 1)))

\* codegen after the statement loop.
CodegenEnd ==
    /\ pc = "stmts"
    /\ crash = "none"
    /\ \E r \in {FinishUnit(ReturnTail(ReplTail(cancel_pop_top(G))))} :
          /\ Apply(r.g)
          /\ result' = IF Crashed(r.g) THEN <<>> ELSE <<r.code>>
    /\ pc' = "done"
    /\ UNCHANGED <<overflow_checks, is_repl, print_point, srcln, nops, last>>

\* clear(), between two codegen calls.
Clear ==
    /\ pc = "done"
    /\ crash = "none"
    /\ units' = <<>>
    /\ errs' = <<>>
    /\ last' = [last EXCEPT !.op = "clear"]
    /\ UNCHANGED <<unit_size, crash, fin, overflow_checks, is_repl, pc,
                   print_point, srcln, nops, result>>

Next == CodegenBegin \/ CodegenStmt \/ CodegenEnd \/ Clear

Spec == Init /\ [][Next]_vars

\* SpecOnce: one codegen call on a new generator.
CodegenOnce == pc = "start" /\ CodegenBegin

NextOnce == CodegenOnce \/ CodegenStmt \/ CodegenEnd

SpecOnce == Init /\ [][NextOnce]_vars

--------------------------------------------------------------------------
\* Properties of the emitter, checked under SpecEmit.

NoDup(seq) == \A i, j \in 1..Len(seq) : i # j => seq[i] # seq[j]

InSeq(seq, e) == \E i \in 1..Len(seq) : seq[i] = e

\* C1: as long as no fatal abort has happened, the simulated stack height
\* of every unit is >= 0: a decrement that would take the height below zero
\* aborts as a compiler bug (crash), it neither panics on the subtraction
\* nor leaves a height.  A negative stack_len is the wrapped u32 (2^32 + v)
\* that the subtraction of stack_dec_n leaves in the release profile; the
\* "panic" outcome is the arithmetic-overflow panic of the debug profile.
C1_HeightNeverBelowZero ==
    /\ crash # "panic"
    /\ \A k \in 1..Len(units) : units[k].stack_len >= 0

\* C2: in every unit codeobj.stacksize equals the greatest value stack_len
\* has ever had.
C2_StacksizeIsHighWater ==
    \A k \in 1..Len(units) : units[k].codeobj.stacksize = units[k].g_max

\* C4: every value in consts appears exactly once; emit_load_const of a
\* value writes the index of the earliest entry equal to it, and when the
\* value was already present consts is left unchanged.
C4_ConstsUnique == \A k \in 1..Len(units) : NoDup(units[k].codeobj.consts)

C4_LoadConstStep ==
    (last'.op = "emit_load_const" /\ crash' = "none") =>
        LET pre == cur_block(G).codeobj.consts
            post == units'[Len(units')].codeobj
            c == last'.arg[1]
            idx == post.code[Len(post.code)]
        IN /\ post.code[Len(post.code) - 1] = "LOAD_CONST"
           /\ idx = Position(post.consts, c)
           /\ idx >= 0
           /\ InSeq(pre, c) => post.consts = pre /\ idx = Position(pre, c)
           /\ ~InSeq(pre, c) => post.consts = Append(pre, c)

C4_ConstDedup == [](C4_ConstsUnique) /\ [][C4_LoadConstStep]_vars

\* C4 witness: a value was loaded a second time and the table holds it once.
C4_Witness ==
    /\ crash = "none"
    /\ last.op = "emit_load_const"
    /\ LET co == cur_block(G).codeobj
       IN /\ Len(co.code) = 6
          /\ co.code = <<"LOAD_CONST", 0, "LOAD_CONST", 1, "LOAD_CONST", 0>>
          /\ Len(co.consts) = 2

\* C5: names, varnames and freevars of every unit hold no entry twice.
C5_NameTablesUnique ==
    \A k \in 1..Len(units) :
        /\ NoDup(units[k].codeobj.names)
        /\ NoDup(units[k].codeobj.varnames)
        /\ NoDup(units[k].codeobj.freevars)

\* C6: in every unit the number of bytes in code equals lasti and is even:
\* every instruction is two bytes, an opcode and then an argument byte.
C6_CodeLenIsLasti ==
    \A k \in 1..Len(units) :
        LET code == units[k].codeobj.code
        IN /\ Len(code) = units[k].lasti
           /\ Len(code) % 2 = 0
           /\ \A i \in 1..Len(code) : i % 2 = 0 => code[i] \in 0..255

\* C6 witness: cancel_pop_top has just removed an instruction from a unit
\* that still holds one, and an argument byte has been patched.
C6_Witness ==
    /\ crash = "none"
    /\ last.op = "cancel_pop_top"
    /\ Len(cur_block(G).codeobj.code) = last.len0 - 2
    /\ cur_block(G).codeobj.code = <<"LOAD_CONST", 1>>

\* C9: a name that a unit classifies as deref (it is in the unit's
\* freevars) is in the cellvars of some unit below it on the unit stack.
C9_FreevarHasCell ==
    \A k \in 1..Len(units) :
        LET co == units[k].codeobj
        IN \A i \in 1..Len(co.freevars) :
              \E j \in 1..(k - 1) :
                 InSeq(units[j].codeobj.cellvars, co.freevars[i])

\* C9 witness: the innermost of three units reads the parameter x of the
\* unit below it with LOAD_DEREF.
C9_Witness ==
    /\ crash = "none"
    /\ Len(units) = 3
    /\ units[3].codeobj.freevars = << <<"x">> >>
    /\ units[3].codeobj.code = <<"LOAD_DEREF", 0>>
    /\ units[2].codeobj.cellvars = << <<"x">> >>

--------------------------------------------------------------------------
\* Properties of the produced code objects, checked under Spec.  fin holds
\* every unit codegen has finished; once codegen has returned (pc = "done")
\* without a crash these are the code objects of the module, its
\* subroutines, lambdas and type bodies.

Produced == pc = "done" /\ crash = "none"

\* The number of instructions of a code vector, and the opcode and the
\* argument byte of instruction i (counted from 0).
NInstr(code) == Len(code) \div 2

OpAt(code, i) == code[2 * i + 1]

ArgAt(code, i) == code[2 * i + 2]

\* The target VM (CPython wordcode, the reader of the code objects): the
\* steps of instruction i at operand-stack depth d, as the set of
\* <<next instruction, depth then>>.  A jump argument is an instruction
\* index; JUMP_FORWARD and FOR_ITER count from the next instruction.
\* FOR_ITER pushes the next item, or pops the iterator and jumps.
VMStep(code, i, d) ==
    LET op == OpAt(code, i)
        arg == ArgAt(code, i)
    IN CASE op \in {"RETURN_VALUE", "RAISE_VARARGS"} -> {}
         [] op \in {"POP_JUMP_IF_FALSE", "POP_JUMP_IF_TRUE"} ->
               {<<i + 1, d - 1>>, <<arg, d - 1>>}
         [] op = "JUMP_ABSOLUTE" -> {<<arg, d>>}
         [] op = "JUMP_FORWARD" -> {<<i + 1 + arg, d>>}
         [] op = "FOR_ITER" -> {<<i + 1, d + 1>>, <<i + 1 + arg, d - 1>>}
         [] op \in {"LOAD_CONST", "LOAD_NAME", "LOAD_GLOBAL", "LOAD_FAST",
                    "LOAD_DEREF", "LOAD_CLOSURE", "LOAD_BUILD_CLASS",
                    "LOAD_ASSERTION_ERROR", "LOAD_METHOD", "DUP_TOP",
                    "MATCH_SEQUENCE", "GET_LEN"} -> {<<i + 1, d + 1>>}
         [] op \in {"STORE_NAME", "STORE_GLOBAL", "STORE_FAST",
                    "STORE_DEREF", "ERG_STORE_FAST_IMMUT", "POP_TOP",
                    "COMPARE_OP", "BINARY_ADD", "BINARY_SUBTRACT",
                    "BINARY_MULTIPLY", "BINARY_TRUE_DIVIDE", "BINARY_POWER",
                    "BINARY_MODULO", "BINARY_AND", "BINARY_OR"} ->
               {<<i + 1, d - 1>>}
         [] op = "STORE_ATTR" -> {<<i + 1, d - 2>>}
         [] op = "CALL_FUNCTION" -> {<<i + 1, d - arg>>}
         [] op \in {"CALL_FUNCTION_KW", "CALL_METHOD"} ->
               {<<i + 1, d - arg - 1>>}
         [] op = "MAKE_FUNCTION" ->
               {<<i + 1, d - 1 - (IF (arg \div 8) % 2 = 1 THEN 1 ELSE 0)>>}
         [] op \in {"BUILD_TUPLE", "BUILD_LIST"} -> {<<i + 1, d + 1 - arg>>}
         [] op = "UNPACK_SEQUENCE" -> {<<i + 1, d + arg - 1>>}
         [] OTHER -> {<<i + 1, d>>}

RECURSIVE VMReach(_, _, _)
\* Every <<instruction, depth>> the VM reaches from those in seen.  A path
\* is followed while the depth is within 0..cap and the instruction inside
\* the code.
VMReach(code, cap, seen) ==
    Bind(seen \cup UNION { VMStep(code, s[1], s[2]) :
                           s \in { t \in seen : /\ t[1] >= 0
                                                /\ t[1] < NInstr(code)
                                                /\ t[2] >= 0
                                                /\ t[2] <= cap } },
         LAMBDA next :
         IF next = seen THEN seen ELSE VMReach(code, cap, next))

\* C3: for every code object produced, stacksize is at least the greatest
\* operand-stack depth the VM reaches stepping through its code from an
\* empty stack.
C3_StacksizeCoversVM ==
    Produced =>
        \A k \in 1..Len(fin) :
            \A s \in VMReach(fin[k].codeobj.code,
                             fin[k].codeobj.stacksize + 1, {<<0, 0>>}) :
                s[2] <= fin[k].codeobj.stacksize

\* The instruction a jump at instruction i leads to, -1 for an instruction
\* that is no jump.
JumpTarget(code, i) ==
    CASE OpAt(code, i) \in {"POP_JUMP_IF_FALSE", "POP_JUMP_IF_TRUE",
                            "JUMP_ABSOLUTE"} -> ArgAt(code, i)
      [] OpAt(code, i) \in {"JUMP_FORWARD", "FOR_ITER"} ->
            i + 1 + ArgAt(code, i)
      [] OTHER -> -1

\* C7: in every code object produced, every jump leads to an instruction
\* of the code: with j the halved target, 2j < len(code).
C7_JumpsInsideCode ==
    Produced =>
        \A k \in 1..Len(fin) :
            \A i \in 0..(NInstr(fin[k].codeobj.code) - 1) :
                JumpTarget(fin[k].codeobj.code, i)
                    < NInstr(fin[k].codeobj.code)

RECURSIVE LnotabLine(_, _, _, _, _)
\* The line lnotab gives the byte offset off: from pair k on, with addr and
\* line accumulated so far, the line deltas of the pairs whose accumulated
\* code delta is at most off are added.
LnotabLine(lnotab, off, k, addr, line) ==
    IF 2 * k > Len(lnotab) THEN line
    ELSE IF addr + lnotab[2 * k - 1] > off THEN line
    ELSE LnotabLine(lnotab, off, k + 1, addr + lnotab[2 * k - 1],
                    line + lnotab[2 * k])

\* C8: for every code object produced, decoding lnotab from firstlineno
\* gives every instruction the source line of the expression that was
\* being lowered when it was written.  Either reading of that line is
\* accepted: the line of the innermost expression (g_expr), or the
\* greatest line the lowering had entered by then, nested definitions
\* included (g_line).
C8_LnotabDecodesLines ==
    Produced =>
        \A k \in 1..Len(fin) :
            \A i \in 1..Len(fin[k].g_line) :
                LnotabLine(fin[k].codeobj.lnotab, 2 * (i - 1), 1, 0,
                           fin[k].codeobj.firstlineno)
                    \in {fin[k].g_line[i], fin[k].g_expr[i]}

\* Every unit, finished or not.
AllUnits == fin \o units

\* Instruction i of unit u was written by the lowering of a call of an
\* intrinsic itself, not by the lowering of one of its arguments.
ByIntrinsic(u, i) == u.g_owner[i + 1] \in Intrinsics

\* C10 as stated: the lowering of a call of assert, discard, for, for!, if,
\* if!, match or match! writes no CALL_FUNCTION of its own.
C10_NoCallForIntrinsic ==
    \A k \in 1..Len(AllUnits) :
        \A i \in 0..(NInstr(AllUnits[k].codeobj.code) - 1) :
            ByIntrinsic(AllUnits[k], i) =>
                OpAt(AllUnits[k].codeobj.code, i) # "CALL_FUNCTION"

\* C10: the lowering of a call of assert, discard, for, for!, if, if!,
\* match or match! never loads the callee, and writes no CALL_FUNCTION of
\* its own but one: assert with a message writes CALL_FUNCTION 1, the call
\* of AssertionError on the message, right before RAISE_VARARGS 1.
C10_OnlyAssertMessageCall ==
    \A k \in 1..Len(AllUnits) :
        LET u == AllUnits[k]
            code == u.codeobj.code
        IN \A i \in 0..(NInstr(code) - 1) :
              ByIntrinsic(u, i) =>
                 /\ OpAt(code, i) \notin {"LOAD_NAME", "LOAD_GLOBAL",
                                          "LOAD_FAST", "LOAD_DEREF"}
                 /\ OpAt(code, i) = "CALL_FUNCTION" =>
                       /\ u.g_owner[i + 1] = <<"assert">>
                       /\ ArgAt(code, i) = 1
                       /\ i + 1 < NInstr(code)
                       /\ OpAt(code, i + 1) = "RAISE_VARARGS"
                       /\ ArgAt(code, i + 1) = 1
                       /\ u.g_owner[i + 2] = <<"assert">>

\* C10 witness: codegen has returned a module in which an assert with a
\* message was lowered, its condition a call of f: the call of f is a
\* CALL_FUNCTION of the argument, the call of AssertionError one of assert.
C10_Witness ==
    /\ Produced
    /\ last.arg = <<"assert_msg">>
    /\ \E i, j \in 0..(NInstr(fin[1].codeobj.code) - 1) :
          /\ i < j
          /\ OpAt(fin[1].codeobj.code, i) = "CALL_FUNCTION"
          /\ fin[1].g_owner[i + 1] = <<"f">>
          /\ OpAt(fin[1].codeobj.code, j) = "CALL_FUNCTION"
          /\ fin[1].g_owner[j + 1] = <<"assert">>

--------------------------------------------------------------------------
\* Names in the tables.

\* The table an instruction's argument indexes: Name::fast counts in
\* varnames, Name::deref in freevars, LOAD_CLOSURE in cellvars, every
\* other Name in names.  <<>> for an instruction without a name.
NameTable(co, op) ==
    CASE op \in {"LOAD_FAST", "STORE_FAST", "ERG_STORE_FAST_IMMUT"} ->
            co.varnames
      [] op \in {"LOAD_DEREF", "STORE_DEREF"} -> co.freevars
      [] op = "LOAD_CLOSURE" -> co.cellvars
      [] op \in {"LOAD_NAME", "STORE_NAME", "LOAD_GLOBAL", "STORE_GLOBAL",
                 "LOAD_ATTR", "STORE_ATTR", "LOAD_METHOD"} -> co.names
      [] OTHER -> <<>>

HasSigil(name) == \E i \in 1..Len(name) : name[i] \in {"!", "$"}

\* The names of the builtin table that are spelled differently for the VM.
Remapped(name) == convert_to_python_name(name) # name

\* C11: every instruction that refers to a name refers to a table entry in
\* the VM's spelling: the entry holds no "!" and no "$" (they are replaced
\* by __erg_proc__ and __erg_shared__), and an entry reached by a name load
\* or store is not a builtin name in its source spelling (classof, import,
\* py, pyimport, input!, log, print!, exit), but the spelling it maps to.
C11_ReferencesUseVMSpelling ==
    \A k \in 1..Len(AllUnits) :
        LET co == AllUnits[k].codeobj
        IN \A i \in 0..(NInstr(co.code) - 1) :
              LET t == NameTable(co, OpAt(co.code, i))
                  a == ArgAt(co.code, i)
              IN (t # <<>> /\ a < Len(t)) =>
                    /\ ~HasSigil(t[a + 1])
                    /\ OpAt(co.code, i) \notin {"LOAD_ATTR", "STORE_ATTR",
                                                "LOAD_METHOD"}
                          => ~Remapped(t[a + 1])

--------------------------------------------------------------------------
\* The unit stack.

IsModule(u) == u.codeobj.name = <<"<module>">>

\* C12: the ids come from a counter that only grows.  All units ever pushed
\* by the generator, those popped (also by earlier codegen calls, before
\* and after clear()) and those on the stack, have pairwise distinct ids
\* among those issued so far; a unit pushed later has the greater id: on
\* the stack the ids increase from bottom to top, a nested unit's id is
\* greater than that of the unit at the bottom, and a later codegen call's
\* module has a greater id than an earlier one's.  So a unit has the id of
\* the toplevel unit exactly when it lies at depth 1.
C12_IdsIncrease ==
    /\ \A i, j \in 1..Len(AllUnits) :
          i # j => AllUnits[i].id # AllUnits[j].id
    /\ \A k \in 1..Len(AllUnits) :
          /\ AllUnits[k].id \in 1..unit_size
          /\ AllUnits[k].g_top <= AllUnits[k].id
          /\ (AllUnits[k].id = AllUnits[k].g_top)
                <=> (AllUnits[k].g_depth = 1)
    /\ \A k \in 1..(Len(units) - 1) : units[k].id < units[k + 1].id
    /\ \A i, j \in 1..Len(fin) :
          (i < j /\ IsModule(fin[i]) /\ IsModule(fin[j]))
             => fin[i].id < fin[j].id

\* C12 witness: a second codegen call has returned after clear() (the
\* first call left a diagnostic, which is gone), and it pushed a nested
\* unit.
C12_Witness ==
    /\ Produced
    /\ Runs = 2
    /\ errs = <<>>
    /\ \E i \in 0..(NInstr(fin[1].codeobj.code) - 1) :
          OpAt(fin[1].codeobj.code, i) = "NOT_IMPLEMENTED"
    /\ \E k \in 1..Len(fin) : fin[k].g_depth = 2 /\ fin[k].g_top > 1


Ids(seq) == {seq[k].id : k \in 1..Len(seq)}

\* C13: while codegen runs the unit stack is not empty and <module> is at
\* its bottom.  Between two statements of the module, and so after every
\* codegen_block and codegen_typedef_block call made for a statement, only
\* the module unit is left: every nested unit was popped by the call that
\* pushed it.  Every unit pushed is on the stack or was popped, once; a
\* unit is popped before each of the units that lay below it when it was
\* pushed.  When codegen has returned, the stack is empty.
C13_PushPopPaired ==
    /\ pc = "stmts" =>
          Len(units) >= 1 /\ IsModule(units[1]) /\ units[1].g_depth = 1
    /\ (pc = "stmts" /\ crash = "none") => Len(units) = 1
    /\ crash = "none" => Len(fin) + Len(units) = unit_size
    /\ \A k \in 1..Len(units) :
          /\ units[k].g_under = [i \in 1..(k - 1) |-> units[i].id]
          /\ units[k].id \notin Ids(fin)
    /\ \A i, j \in 1..Len(fin) :
          InSeq(fin[j].g_under, fin[i].id) => j < i
    /\ \A j \in 1..Len(fin) :
          \A i \in 1..Len(fin[j].g_under) :
             fin[j].g_under[i] \in Ids(fin) \cup Ids(units)
    /\ Produced => units = <<>>

\* C13 witness: codegen has returned a module for which units were nested
\* three deep (a lambda in a subroutine), all popped.
C13_Witness ==
    /\ Produced
    /\ units = <<>>
    /\ \E k \in 1..Len(fin) :
          fin[k].g_depth = 3 /\ fin[k].codeobj.name = <<"<lambda>">>


--------------------------------------------------------------------------
\* The code objects returned.

HasNewLocals(co) == (co.flags \div NewLocals) % 2 = 1

\* C14: every code object handed back by codegen, codegen_block or
\* codegen_typedef_block (the code object of a popped unit) has the
\* new-locals bit set if its varnames table is not empty, and the flag was
\* added to it at most once: its flags are 0 or the one bit.
C14_NewLocalsFlag ==
    \A k \in 1..Len(fin) :
        /\ fin[k].codeobj.varnames # <<>> => HasNewLocals(fin[k].codeobj)
        /\ fin[k].codeobj.flags \in {0, NewLocals}

\* C14 witness: codegen has returned a module without varnames after a
\* subroutine with a parameter was lowered: the one is flagged, the other
\* is not.
C14_Witness ==
    /\ Produced
    /\ \E k \in 1..Len(fin) :
          /\ fin[k].codeobj.varnames # <<>>
          /\ fin[k].codeobj.flags = NewLocals
    /\ \E k \in 1..Len(fin) :
          /\ IsModule(fin[k])
          /\ fin[k].codeobj.varnames = <<>>
          /\ fin[k].codeobj.flags = 0


\* C15: a nested code object obtained by popping a unit (a subroutine
\* body, a lambda, a type body) is a constant of the enclosing unit, the
\* unit that lay right below it: the lowering loads it with LOAD_CONST
\* before MAKE_FUNCTION.
C15_NestedCodeIsConst ==
    crash = "none" =>
       \A k \in 1..Len(fin) :
           fin[k].g_depth > 1 =>
              \E p \in 1..Len(AllUnits) :
                 /\ AllUnits[p].id = fin[k].g_under[Len(fin[k].g_under)]
                 /\ InSeq(AllUnits[p].codeobj.consts,
                          VCode(fin[k].codeobj))


--------------------------------------------------------------------------
\* Diagnostics.

\* The statements with a construct the generator does not support: an
\* operator without an instruction (unary, binary), a definition whose
\* pattern is neither a name nor an array, a match arm whose pattern is
\* none of name, literal, array, a match arm with default values.
Unsupported ==
    {"unary_other", "bin_other", "let_discard", "match_discard",
     "match_default"}

HasOpcode(code, op) == \E i \in 0..(NInstr(code) - 1) : OpAt(code, i) = op

\* C16: when the module's first statement holds an unsupported construct,
\* its lowering neither panics nor terminates the process: it leaves a
\* feature_error diagnostic in errs, a NOT_IMPLEMENTED instruction in the
\* code, and codegen goes on.
C16_UnsupportedIsDiagnosed ==
    (pc = "stmts" /\ Len(last.arg) = 1 /\ last.arg[1] \in Unsupported) =>
        /\ crash = "none"
        /\ \E i \in 1..Len(errs) : errs[i].kind = "feature_error"
        /\ HasOpcode(units[1].codeobj.code, "NOT_IMPLEMENTED")


EndsInReturn(code) ==
    /\ NInstr(code) >= 1
    /\ OpAt(code, NInstr(code) - 1) = "RETURN_VALUE"

--------------------------------------------------------------------------
\* The REPL.

\* Statements that codegen lowers without a diagnostic outside the REPL: a
\* literal, a name, a definition of a name, a call of print!.
Plain == {"lit", "name", "let", "print"}

\* C18: in REPL mode codegen finishes the module normally, without an
\* abort, for any sequence of plain statements: the print loaded first is
\* either called on the last value or turned into NOP.
C18_ReplFinishes ==
    (is_repl /\ pc = "done"
        /\ \A i \in 1..Len(last.arg) : last.arg[i] \in Plain)
       => crash = "none"


--------------------------------------------------------------------------
\* Definitions at module scope.

StoreOps ==
    {"STORE_NAME", "STORE_FAST", "ERG_STORE_FAST_IMMUT", "STORE_GLOBAL",
     "STORE_DEREF", "STORE_ATTR"}

\* C19: outside the REPL the module `x = 1` yields the code LOAD_CONST 0;
\* STORE_NAME 0; LOAD_CONST 1; RETURN_VALUE 0 with consts = [1, None],
\* names = [x] and no varnames.  In every module unit varnames is empty and
\* every store is a STORE_NAME whose argument indexes names.
C19_ModuleDefinition ==
    /\ (Produced /\ ~is_repl /\ last.arg = <<"let">>) =>
          /\ Len(result) = 1
          /\ result[1].code = <<"LOAD_CONST", 0, "STORE_NAME", 0,
                                "LOAD_CONST", 1, "RETURN_VALUE", 0>>
          /\ result[1].consts = <<VInt(1), VNone>>
          /\ result[1].names = << <<"x">> >>
          /\ result[1].varnames = <<>>
    /\ \A k \in 1..Len(AllUnits) :
          IsModule(AllUnits[k]) =>
             LET co == AllUnits[k].codeobj
             IN /\ co.varnames = <<>>
                /\ \A i \in 0..(NInstr(co.code) - 1) :
                      OpAt(co.code, i) \in StoreOps =>
                         /\ OpAt(co.code, i) = "STORE_NAME"
                         /\ ArgAt(co.code, i) < Len(co.names)

\* C19 witness: codegen has returned the code object of the module `x = 1`
\* outside the REPL.
C19_Witness ==
    /\ Produced
    /\ ~is_repl
    /\ last.arg = <<"let">>
    /\ Len(result) = 1
    /\ HasOpcode(result[1].code, "STORE_NAME")


--------------------------------------------------------------------------
\* Closures.

\* Some instruction of co with opcode op refers to the entry name of table.
Refers(co, op, table, name) ==
    \E i \in 0..(NInstr(co.code) - 1) :
        /\ OpAt(co.code, i) = op
        /\ ArgAt(co.code, i) < Len(table)
        /\ table[ArgAt(co.code, i) + 1] = name

\* C20: after the module g x = (y = x + 1; z -> z + y) is lowered, the
\* code object of g has cellvars = [y], the code object of the lambda has
\* freevars = [y] and reads y with LOAD_DEREF, and the MAKE_FUNCTION that
\* makes the lambda, in the code of g, has the closure bit (8) in its
\* argument.
C20_LambdaClosesOverLocal ==
    (pc = "stmts" /\ crash = "none" /\ last.arg = <<"closure_y">>) =>
        \E l, s \in 1..Len(fin) :
            LET lam == fin[l].codeobj
                sub == fin[s].codeobj
            IN /\ lam.name = <<"<lambda>">>
               /\ sub.name = <<"g">>
               /\ sub.cellvars = << <<"y">> >>
               /\ lam.freevars = << <<"y">> >>
               /\ Refers(lam, "LOAD_DEREF", lam.freevars, <<"y">>)
               /\ \E i \in 0..(NInstr(sub.code) - 1) :
                     /\ OpAt(sub.code, i) = "MAKE_FUNCTION"
                     /\ (ArgAt(sub.code, i) \div 8) % 2 = 1


--------------------------------------------------------------------------
\* Loops.

ForNames == {<<"for">>, <<"for", "!">>}

\* C21: in the code of `for iter, body` the instruction after FOR_ITER
\* stores the loop parameter; the back-edge JUMP_ABSOLUTE leads to the
\* FOR_ITER and comes right after a POP_TOP that discards the value of the
\* body's last statement, or right after a store when that statement is a
\* definition and leaves no value; LOAD_CONST None follows the back-edge.
C21_ForBodyIsStackNeutral ==
    crash = "none" =>
        \A k \in 1..Len(AllUnits) :
            LET u == AllUnits[k]
                code == u.codeobj.code
            IN \A i \in 0..(NInstr(code) - 1) :
                  (OpAt(code, i) = "JUMP_ABSOLUTE"
                      /\ u.g_owner[i + 1] \in ForNames) =>
                     /\ OpAt(code, ArgAt(code, i)) = "FOR_ITER"
                     /\ OpAt(code, ArgAt(code, i) + 1) \in StoreOps
                     /\ OpAt(code, i - 1) \in StoreOps \cup {"POP_TOP"}
                     /\ i + 1 < NInstr(code)
                     /\ OpAt(code, i + 1) = "LOAD_CONST"
                     /\ u.codeobj.consts[ArgAt(code, i + 1) + 1] = VNone


--------------------------------------------------------------------------
\* Conditionals.

\* C22: for every `if` lowered, with POP_JUMP_IF_FALSE at byte J1 and, in
\* the form with else, JUMP_FORWARD at byte J2: the argument byte of the
\* false-jump is (J2 + 2) / 2, the instruction after JUMP_FORWARD, and the
\* argument byte of JUMP_FORWARD is (end - J2 - 2) / 2, end the index just
\* after the else branch; without else the argument byte of the false-jump
\* is end / 2, end the index just after the then branch.  (code is indexed
\* from 1 here: the byte at index J + 1 of the source is code[J + 2].)
C22_IfJumpsPatched ==
    \A k \in 1..Len(AllUnits) :
        LET u == AllUnits[k]
            code == u.codeobj.code
        IN \A n \in 1..Len(u.g_if) :
              LET J1 == u.g_if[n].j1
                  J2 == u.g_if[n].j2
                  end == u.g_if[n].end
              IN /\ code[J1 + 1] = "POP_JUMP_IF_FALSE"
                 /\ IF J2 >= 0
                    THEN /\ code[J2 + 1] = "JUMP_FORWARD"
                         /\ code[J1 + 2] = (J2 + 2) \div 2
                         /\ code[J2 + 2] = (end - J2 - 2) \div 2
                         /\ J1 < J2 /\ J2 + 2 <= end
                    ELSE /\ code[J1 + 2] = end \div 2
                         /\ J1 + 2 <= end

\* C22 witness: codegen has returned a module whose first statement is an
\* `if` with an else branch and whose second is an `if` without: both
\* forms were patched.
C22_Witness ==
    /\ Produced
    /\ last.arg = <<"if_else", "if_discard">>
    /\ \E m, n \in 1..Len(fin[1].g_if) :
          fin[1].g_if[m].j2 >= 0 /\ fin[1].g_if[n].j2 = -1


--------------------------------------------------------------------------
\* match.

\* C23: for every arm of a `match`, all the false-jumps recorded for its
\* pattern (both false-jumps of an array pattern and those of its
\* sub-patterns included) have the same argument, and the instruction they
\* lead to is a POP_TOP, the discard of the subject that opens the next
\* arm.
C23_FalseJumpsReachNextArm ==
    crash = "none" =>
        \A k \in 1..Len(AllUnits) :
            LET u == AllUnits[k]
                code == u.codeobj.code
            IN \A n \in 1..Len(u.g_arms) :
                  \A p, q \in 1..Len(u.g_arms[n].pops) :
                     LET P1 == u.g_arms[n].pops[p]
                         P2 == u.g_arms[n].pops[q]
                     IN /\ code[P1 + 1] = "POP_JUMP_IF_FALSE"
                        /\ code[P1 + 2] = code[P2 + 2]
                        /\ code[P1 + 2] < NInstr(code)
                        /\ OpAt(code, code[P1 + 2]) = "POP_TOP"

\* C24: for every `match`, DUP_TOP is written before every arm but the
\* last; after the body of every arm, whatever its pattern, exactly one
\* JUMP_ABSOLUTE is written and recorded; and after the last arm the
\* argument of every recorded JUMP_ABSOLUTE is lasti / 2, the one merge
\* point.
C24_OneEndJumpPerArm ==
    crash = "none" =>
        \A k \in 1..Len(AllUnits) :
            LET u == AllUnits[k]
                code == u.codeobj.code
            IN /\ \A n \in 1..Len(u.g_arms) :
                     /\ u.g_arms[n].dup = ~u.g_arms[n].last
                     /\ Len(u.g_arms[n].jumps) = 1
               /\ \A n \in 1..Len(u.g_match) :
                     \A j \in 1..Len(u.g_match[n].jumps) :
                        /\ code[u.g_match[n].jumps[j] + 1] = "JUMP_ABSOLUTE"
                        /\ code[u.g_match[n].jumps[j] + 2]
                              = u.g_match[n].lasti \div 2


--------------------------------------------------------------------------
\* Name resolution, checked under SpecNames.

AccessKinds == {"Name", "Attr", "Method"}

\* The names looked up: those the emitter is called with and every entry
\* of a table of the current unit.
SearchNames ==
    EmitNames
       \cup { cur_block(G).codeobj.names[i] :
                 i \in 1..Len(cur_block(G).codeobj.names) }
       \cup { cur_block(G).codeobj.varnames[i] :
                 i \in 1..Len(cur_block(G).codeobj.varnames) }
       \cup { cur_block(G).codeobj.freevars[i] :
                 i \in 1..Len(cur_block(G).codeobj.freevars) }

\* opt is Some(Name) of the given kind whose index is the position of the
\* first entry of table equal to name.
IsFirstHit(opt, kind, table, name) ==
    /\ Len(opt) = 1
    /\ opt[1].kind = kind
    /\ opt[1].idx < Len(table)
    /\ table[opt[1].idx + 1] = name
    /\ \A j \in 1..opt[1].idx : table[j] # name

\* C25: local_search looks the name up in the current unit's names, then
\* varnames, then freevars.  A hit in names is global when the unit is not
\* the toplevel and the access kind is Name, else local; a hit in varnames
\* is fast when the unit is not the toplevel, else local; a hit in
\* freevars is deref; without a hit the result is None.  The index is that
\* of the first matching entry.  (local_search takes &self and returns the
\* Name only: the generator is the same after it.)
C25_LocalSearchClassifies ==
    Len(units) > 0 =>
        \A name \in SearchNames, acc \in AccessKinds :
            LET co == cur_block(G).codeobj
                top == Len(units) = 1
                r == local_search(G, name, acc)
            IN IF InSeq(co.names, name)
               THEN IsFirstHit(r, IF ~top /\ acc = "Name" THEN "Global"
                                  ELSE "Local", co.names, name)
               ELSE IF InSeq(co.varnames, name)
               THEN IsFirstHit(r, IF top THEN "Local" ELSE "Fast",
                               co.varnames, name)
               ELSE IF InSeq(co.freevars, name)
               THEN IsFirstHit(r, "Deref", co.freevars, name)
               ELSE r = <<>>

\* C25 witness: a load or a store has just been lowered in a unit that is
\* not the toplevel, and a name of its names table is global for a name
\* access and local for an attribute access.
C25_Witness ==
    /\ Len(units) > 1
    /\ crash = "none"
    /\ last.op \in {"emit_load_name_instr", "emit_store_instr"}
    /\ \E name \in SearchNames :
          /\ InSeq(cur_block(G).codeobj.names, name)
          /\ local_search(G, name, "Name")[1].kind = "Global"
          /\ local_search(G, name, "Attr")[1].kind = "Local"


\* The names rec_search is asked for: those the emitter is called with and
\* every entry of a table of a unit on the stack.
StackNames ==
    EmitNames
       \cup UNION { { units[k].codeobj.names[i] :
                         i \in 1..Len(units[k].codeobj.names) }
                    \cup { units[k].codeobj.varnames[i] :
                              i \in 1..Len(units[k].codeobj.varnames) }
                    \cup { units[k].codeobj.cellvars[i] :
                              i \in 1..Len(units[k].codeobj.cellvars) } :
                    k \in 1..Len(units) }

\* The enclosing units that know the name: those below the current unit
\* with the name in cellvars or varnames, and the module with it in names.
Knows(name) ==
    { k \in 1..(Len(units) - 1) :
         \/ InSeq(units[k].codeobj.cellvars, name)
         \/ InSeq(units[k].codeobj.varnames, name)
         \/ k = 1 /\ InSeq(units[1].codeobj.names, name) }

\* C26: rec_search goes through the enclosing units from the innermost
\* outward, the current unit left out, and the first unit that knows the
\* name decides: name in its cellvars -> deref; else name in its varnames
\* and the unit is not the module -> the name is appended to the unit's
\* cellvars, deref; else (the module, name in varnames or names) ->
\* global; no unit knows it -> global.  Nothing of the generator changes
\* but the cellvars of the unit where the name is promoted, and no
\* cellvars table holds a name twice.
C26_RecSearchPromotes ==
    /\ \A k \in 1..Len(units) : NoDup(units[k].codeobj.cellvars)
    /\ Len(units) > 0 =>
          \A name \in StackNames :
             LET r == rec_search(G, name)
             IN IF Knows(name) = {}
                THEN r.kind = <<"Global">> /\ r.g = G
                ELSE LET k == CHOOSE h \in Knows(name) :
                                 \A o \in Knows(name) : o <= h
                         co == units[k].codeobj
                     IN IF InSeq(co.cellvars, name)
                        THEN r.kind = <<"Deref">> /\ r.g = G
                        ELSE IF InSeq(co.varnames, name) /\ k > 1
                        THEN /\ r.kind = <<"Deref">>
                             /\ r.g = [G EXCEPT
                                         !.units[k].codeobj.cellvars =
                                             Append(@, name)]
                        ELSE r.kind = <<"Global">> /\ r.g = G

\* C26 witness: a load or a store in the third unit has promoted a
\* parameter of the second: it is in the second unit's cellvars, and
\* another search for it answers deref and appends nothing.
C26_Witness ==
    /\ Len(units) = 3
    /\ crash = "none"
    /\ last.op \in {"emit_load_name_instr", "emit_store_instr"}
    /\ \E name \in StackNames :
          /\ InSeq(units[2].codeobj.varnames, name)
          /\ InSeq(units[2].codeobj.cellvars, name)
          /\ InSeq(units[3].codeobj.freevars, name)
          /\ rec_search(G, name).kind = <<"Deref">>
          /\ rec_search(G, name).g = G


\* C27: a store of a variable that is new to the unit and known to no
\* enclosing unit, in a unit that is not the module (y = ... in the body
\* of a subroutine), appends the variable to the unit's varnames and is a
\* STORE_FAST.  Stated for a store that is the first instruction of its
\* unit: local_search finds nothing then but a parameter, which is fast
\* as well.
C27_NewLocalIsFast ==
    (/\ crash = "none"
     /\ Len(units) > 1
     /\ last.op = "emit_store_instr"
     /\ last.arg[2] = "Name"
     /\ last.len0 = 0
     /\ Len(cur_block(G).codeobj.code) = 2
     /\ Knows(escape_name(last.arg[1])) = {})
       => /\ cur_block(G).codeobj.code[1] = "STORE_FAST"
          /\ InSeq(cur_block(G).codeobj.varnames, escape_name(last.arg[1]))


--------------------------------------------------------------------------
\* The choice of the load and store instructions, checked under SpecNames.

\* The last instruction of the current unit of g.
LastOp(g) ==
    cur_block(g).codeobj.code[Len(cur_block(g).codeobj.code) - 1]

\* The load / store instruction of a kind and an access kind, as a table.
LoadTable(kind, acc) ==
    CASE kind \in {"Fast", "FastConst"} -> "LOAD_FAST"
      [] kind = "Global" -> "LOAD_GLOBAL"
      [] kind = "Deref" -> "LOAD_DEREF"
      [] kind = "Local" /\ acc = "Name" -> "LOAD_NAME"
      [] kind = "Local" /\ acc = "Attr" -> "LOAD_ATTR"
      [] kind = "Local" /\ acc = "Method" -> "LOAD_METHOD"

StoreTable(kind, acc) ==
    CASE kind = "Fast" -> "STORE_FAST"
      [] kind = "FastConst" -> "ERG_STORE_FAST_IMMUT"
      [] kind = "Global" -> "STORE_GLOBAL"
      [] kind = "Deref" -> "STORE_DEREF"
      [] kind = "Local" /\ acc = "Name" -> "STORE_NAME"
      [] kind = "Local" /\ acc \in {"Attr", "Method"} -> "STORE_ATTR"

\* C28: the instruction written for a load or a store is the one the table
\* gives for the kind of the resolved name and the access kind; a store
\* lowers the simulated height by one (at height 0 it ends in crash(), the
\* pop of an empty stack), a name load raises it by one.
C28_OpcodeByKind ==
    /\ \A kind \in {"Fast", "FastConst", "Global", "Deref", "Local"} :
          /\ LoadOpcode(kind, "LOAD_NAME") = LoadTable(kind, "Name")
          /\ LoadOpcode(kind, "LOAD_ATTR") = LoadTable(kind, "Attr")
          /\ LoadOpcode(kind, "LOAD_METHOD") = LoadTable(kind, "Method")
          /\ \A acc \in AccessKinds :
                StoreOpcode(kind, acc) = StoreTable(kind, acc)
    /\ (Len(units) > 0 /\ crash = "none") =>
          \A name \in EmitNames :
             LET h == cur_block(G).stack_len
                 kind(acc, reg) ==
                     Resolve(G, local_search(G, name, acc), reg).name.kind
                 ld == emit_load_name_instr(G, name)
                 la == emit_load_attr_instr(G, "Array!", <<>>, name)
                 lm == emit_load_method_instr(G, "Array!", <<>>, name)
             IN /\ ~Crashed(ld)
                /\ LastOp(ld)
                      = LoadTable(kind("Name", register_name(G, name)),
                                  "Name")
                /\ cur_block(ld).stack_len = h + 1
                /\ LastOp(la)
                      = LoadTable(kind("Attr", register_attr(
                                      G, "Array!", <<>>, name)), "Attr")
                /\ LastOp(lm)
                      = LoadTable(kind("Method", register_method(
                                      G, "Array!", <<>>, name)), "Method")
                /\ \A acc \in AccessKinds :
                      LET st == emit_store_instr(G, name, acc)
                      IN /\ LastOp(st)
                               = StoreTable(kind(acc,
                                                 register_name(G, name)),
                                            acc)
                         /\ IF h = 0 THEN st.crash = "bug"
                            ELSE /\ ~Crashed(st)
                                 /\ cur_block(st).stack_len = h - 1

\* C28 witness: in a unit that is not the toplevel a store has been
\* lowered, and the names the emitter is called with resolve to two
\* different kinds there, one of them not local.
C28_Witness ==
    /\ Len(units) > 1
    /\ crash = "none"
    /\ last.op = "emit_store_instr"
    /\ LastOp(G) \in {"STORE_FAST", "STORE_GLOBAL", "STORE_DEREF"}
    /\ cur_block(G).stack_len > 0
    /\ \E n1, n2 \in EmitNames :
          LastOp(emit_load_name_instr(G, n1))
             # LastOp(emit_load_name_instr(G, n2))


--------------------------------------------------------------------------
\* cancel_pop_top, checked under SpecEmit.

\* C29: cancel_pop_top never fails.  When the last instruction of the
\* current unit is POP_TOP it removes the two bytes, lowers lasti by 2 and
\* raises the simulated height by 1; when it is another instruction, or
\* the code is empty, nothing changes.  emit_pop_top followed by
\* cancel_pop_top gives back the code, lasti and the height.
C29_CancelUndoesPopTop ==
    (Len(units) > 0 /\ crash = "none") =>
        LET u == cur_block(G)
            code == u.codeobj.code
        IN /\ \A c \in {cancel_pop_top(G)} :
                 /\ ~Crashed(c)
                 /\ IF Len(code) >= 2 /\ code[Len(code) - 1] = "POP_TOP"
                    THEN /\ cur_block(c).codeobj.code
                               = SubSeq(code, 1, Len(code) - 2)
                         /\ cur_block(c).lasti = u.lasti - 2
                         /\ cur_block(c).stack_len = u.stack_len + 1
                    ELSE c = G
           /\ u.stack_len > 0 =>
                 \A c \in {cancel_pop_top(emit_pop_top(G))} :
                    /\ ~Crashed(c)
                    /\ cur_block(c).codeobj.code = code
                    /\ cur_block(c).lasti = u.lasti
                    /\ cur_block(c).stack_len = u.stack_len


--------------------------------------------------------------------------
\* The line-number step of codegen_expr, checked under Spec.

\* A statement that follows a comment block or blank lines this long.
FarGap == 256

\* The distances from prev_lineno at which an expression is visited.
LineGaps == {-1, 0, 1, 2, FarGap}

\* What the step is said to do to unit u when it visits line ln: r is
\* the generator after the step.
LineStepAsStated(u, ln, r) ==
    LET lt == u.codeobj.lnotab
        sd == u.lasti - u.prev_lasti
        ld == ln - u.prev_lineno
        v == cur_block(r)
    IN /\ ~Crashed(r)
       /\ IF ln > u.prev_lineno
          THEN /\ v.codeobj.lnotab
                    = IF sd > 0 THEN lt \o <<sd, ld>>
                      ELSE IF Len(lt) > 0
                           THEN [lt EXCEPT ![Len(lt)] = @ + ld]
                           ELSE <<0, ld>>
               /\ v.prev_lineno = ln
               /\ v.prev_lasti = u.lasti
          ELSE /\ v.codeobj.lnotab = lt
               /\ v.prev_lineno = u.prev_lineno
               /\ v.prev_lasti = u.prev_lasti

\* C30: visiting an expression whose line exceeds prev_lineno appends
\* (sd, ld) to lnotab when sd > 0, and when sd = 0 adds ld to the last
\* line delta, or appends (0, ld) to an empty lnotab; prev_lineno becomes
\* the line and prev_lasti becomes lasti.  Visiting a line that does not
\* exceed prev_lineno changes none of the three.  The second visit is
\* that of an expression nested in the first, before any instruction of
\* the first is written.
C30_LineStepRecordsDeltas ==
    (Len(units) > 0 /\ crash = "none") =>
        LET u == cur_block(G)
        IN \A d1 \in LineGaps :
              \A r1 \in {LineStep(G, One(u.prev_lineno + d1))} :
                 /\ LineStepAsStated(u, u.prev_lineno + d1, r1)
                 /\ ~Crashed(r1) =>
                       \A d2 \in LineGaps :
                          LET u1 == cur_block(r1)
                              ln2 == u1.prev_lineno + d2
                          IN LineStepAsStated(u1, ln2,
                                              LineStep(r1, One(ln2)))


--------------------------------------------------------------------------
\* Subroutine definitions, checked under Spec.

\* The instruction at byte index i of a unit: its opcode and argument.
InstrAt(u, i) == <<u.codeobj.code[i + 1], u.codeobj.code[i + 2]>>

\* The lowering of the body exposed cellvars: the code object built for
\* the body has some, or a unit enclosing the body gained some.
Exposed(s) == s.cells # <<>> \/ s.after # s.before

\* C31: emit_subr_def writes LOAD_CONST of the body's code object; then,
\* exactly when the unit built for the body exposed cellvars, one
\* LOAD_CLOSURE i per cellvar and BUILD_TUPLE, with bit 0x08 in the
\* argument of MAKE_FUNCTION, and otherwise no LOAD_CLOSURE and the
\* argument 0; then LOAD_CONST of the name, MAKE_FUNCTION and the store of
\* the name.
C31_ClosureWhenCellvars ==
    \A k \in 1..Len(fin) :
       LET u == fin[k]
       IN \A n \in 1..Len(u.g_subr) :
             LET s == u.g_subr[n]
                 c == s.after[Len(s.after)]
                 m == IF Exposed(s) THEN s.at + 2 + 2 * Len(c) + 2
                      ELSE s.at + 2
             IN /\ InstrAt(u, s.at)[1] = "LOAD_CONST"
                /\ u.codeobj.consts[InstrAt(u, s.at)[2] + 1].tag = "Code"
                /\ Exposed(s) =>
                      /\ Len(c) > 0
                      /\ \A i \in 0..Len(c) - 1 :
                            InstrAt(u, s.at + 2 + 2 * i)
                               = <<"LOAD_CLOSURE", i>>
                      /\ InstrAt(u, m - 2) = <<"BUILD_TUPLE", Len(c)>>
                /\ InstrAt(u, m)[1] = "LOAD_CONST"
                /\ InstrAt(u, m + 2)
                      = <<"MAKE_FUNCTION", IF Exposed(s) THEN 8 ELSE 0>>
                /\ InstrAt(u, m + 4)[1]
                      \in {"STORE_NAME", "STORE_GLOBAL", "STORE_FAST",
                           "STORE_DEREF"}


--------------------------------------------------------------------------
\* The statement loops, checked under Spec.

\* The units whose lowering has ended and those on the stack.
UnitsSoFar == { fin[k] : k \in 1..Len(fin) }
                 \cup { units[k] : k \in 1..Len(units) }

\* C32: in every block (the module, in the REPL or not, the body of a
\* subroutine or lambda, a type body, a block inlined into if, for or
\* match) a statement is followed by POP_TOP exactly when it left a value,
\* and the simulated height before each statement of a block is the height
\* at which the block began.
C32_StatementsLeaveNoValue ==
    \A u \in UnitsSoFar :
       \A n \in 1..Len(u.g_stmt) :
          LET s == u.g_stmt[n]
          IN /\ s.popped <=> s.after > s.before
             /\ s.before = s.h0


--------------------------------------------------------------------------
\* The jumps of `for`, checked under SpecOnce.

\* C33: with j the byte index of FOR_ITER and end the byte index after the
\* JUMP_ABSOLUTE that closes the loop, the JUMP_ABSOLUTE carries j / 2, so
\* it targets FOR_ITER, and FOR_ITER carries (end - j - 2) / 2, so leaving
\* the loop lands on the instruction after the JUMP_ABSOLUTE.
C33_ForJumpsPatched ==
    \A u \in UnitsSoFar :
       \A n \in 1..Len(u.g_for) :
          LET j == u.g_for[n].j
              end == u.g_for[n].end
          IN /\ j % 2 = 0 /\ j + 2 <= end - 2
             /\ end < Len(u.codeobj.code)
             /\ InstrAt(u, j) = <<"FOR_ITER", (end - j - 2) \div 2>>
             /\ InstrAt(u, end - 2) = <<"JUMP_ABSOLUTE", j \div 2>>
             /\ 2 * InstrAt(u, end - 2)[2] = j
             /\ j + 2 + 2 * InstrAt(u, j)[2] = end

\* C33 witness: codegen has returned a module in which a `for` that is
\* not the first instruction, with a body of several instructions, was
\* lowered.
C33_Witness ==
    /\ pc = "done"
    /\ crash = "none"
    /\ \E k \in 1..Len(fin) :
          \E n \in 1..Len(fin[k].g_for) :
             /\ fin[k].g_for[n].j > 4
             /\ fin[k].g_for[n].end - fin[k].g_for[n].j > 6


--------------------------------------------------------------------------
\* The zero-delta path of the line-number step, checked under SpecOnce.

\* A compiler_bug diagnostic is among the errors of g.
HasCompilerBug(g) == \E i \in 1..Len(g.errs) : g.errs[i].kind = "compiler_bug"

\* C34 as stated: the zero-delta path of codegen_expr can be entered; some
\* expression makes the step append the compiler_bug diagnostic and abort.
C34_ZeroDeltaReachable ==
    (Len(units) > 0 /\ crash = "none") =>
        \E d \in LineGaps :
           HasCompilerBug(LineStep(G, One(cur_block(G).prev_lineno + d)))

\* C34: the zero-delta path of codegen_expr is never entered.  The step
\* is taken only for a line above prev_lineno, and then ld is at least 1:
\* no codegen call appends the compiler_bug diagnostic, and no expression
\* visited next would.
C34_ZeroDeltaNeverEntered ==
    /\ ~HasCompilerBug(G)
    /\ (Len(units) > 0 /\ crash = "none") =>
          \A d \in LineGaps :
             ~HasCompilerBug(LineStep(G, One(cur_block(G).prev_lineno + d)))

\* C34 witness: codegen has lowered two statements, the second on a later
\* line than the first, so the line-number step has been taken with a
\* positive delta and has recorded it.
C34_Witness ==
    /\ pc = "stmts"
    /\ crash = "none"
    /\ Len(last.arg) = 2
    /\ Len(units) = 1
    /\ Len(cur_block(G).codeobj.lnotab) >= 2
    /\ cur_block(G).prev_lineno > 1
    /\ cur_block(G).prev_lasti > 0


--------------------------------------------------------------------------
\* The height each expression leaves, checked under Spec.

\* The arms that lower an expression with a value, and the definitions.
ValueArms == {"Lit", "Local", "Attr", "UnaryOp", "BinOp", "Call", "KwCall",
              "MethodCall", "ObjCall", "Array", "Lambda"}

DefArms == {"VarDef", "ArrayDef", "SubrDef", "TypeDef"}

\* C35: codegen_expr raises the simulated height by 1 for an expression
\* with a value (literal, name, attribute, unary and binary operator,
\* range, call with positional or keyword arguments, method call, array
\* literal of any length, lambda) and leaves it as it was for a definition
\* (of a variable, of an array pattern, of a subroutine, of a type).
C35_ValuesRaiseDefsKeep ==
    \A u \in UnitsSoFar :
       \A n \in 1..Len(u.g_stmt) :
          LET s == u.g_stmt[n]
          IN /\ s.arm \in ValueArms => s.after = s.before + 1
             /\ s.arm \in DefArms => s.after = s.before

==========================================================================
